---- MODULE Spec2Model ----
(***************************************************************************)
(* Verification model of the coompel firmware (matler95/coompel1.2).       *)
(*                                                                         *)
(* Part 1: the weather / geolocation service                               *)
(*   lib/WeatherService/WeatherService.{h,cpp}                             *)
(*   lib/WeatherService/WeatherClient.cpp, GeoLocationClient.cpp           *)
(*   the weather view of src/main.cpp (the reader of the cached records)   *)
(*                                                                         *)
(* Two threads of control are modelled: the Arduino main loop (update(),   *)
(* forceUpdate(), setEnabled(), the weather view) and the FreeRTOS worker  *)
(* task running fetchTask().  Both have priority 1 and may run on either   *)
(* core, so every interleaving of their steps is possible.  The WiFi link, *)
(* the HTTP servers, xTaskCreate and the clock are the environment.        *)
(*                                                                         *)
(* Time is millis(); the model stays below the 2^32 ms wrap of millis().   *)
(* lastError_ and the event callback (never installed by main.cpp) do not  *)
(* influence any decision of the service and are left out.                 *)
(*                                                                         *)
(* Part 2: the animation playback engine                                   *)
(*   lib/AnimationEngine/AnimationEngine.cpp                               *)
(* The engine is one record, `animator`; its methods are operators from a  *)
(* record to a record, so that a handler calling several of them is their  *)
(* composition.  The bitmap data (animations/anim_*.h) is not part of the  *)
(* sources: an animation is its frame count and its loop flag.             *)
(* _previousState, _autoReturnToIdle and _globalFPS are written and never  *)
(* read by any decision and are left out.                                  *)
(***************************************************************************)
EXTENDS Integers, Sequences, FiniteSets, TLC

\* ------------------------------------------------------------------------
\* Program constants (WeatherService.h)
\* ------------------------------------------------------------------------
LOCATION_CACHE_SECS == 604800
WEATHER_CACHE_SECS == 14400
MIN_UPDATE_INTERVAL_SECS == 300
RETRY_DELAY_SECS == 30
DEFAULT_UPDATE_INTERVAL == 14400
WIFI_STABILIZE_MS == 5000
MAX_RETRIES == 3
\* WeatherForecast::days[4]
FORECAST_DAYS == 4
\* init(): nextUpdateTime_ = millis()/1000 + 5
FIRST_CHECK_SECS == 5
\* update(): cache still valid, check again in 1 minute
RECHECK_SECS == 60
\* 2^31 - 1: timestamps are uint32_t, 2^32 = 2 * U32_HALF + 2
U32_HALF == 2147483647

\* ------------------------------------------------------------------------
\* Bounds of the model
\* ------------------------------------------------------------------------
\* how many times the clock is advanced in one behaviour
MaxTicks == 2
\* how many times forceUpdate() is called in one behaviour
MaxForced == 1
\* the longest uptime considered (12 hours)
MaxUptimeMs == 43200000
\* millis() when setup() reaches weatherService.init()
SetupMs == 1500
\* fetch timestamps (seconds of uptime of an earlier boot) found in NVS
SavedEarlySecs == 1
SavedLateSecs == 90000
\* number of days a forecast response may hold (the parser keeps at most 4)
MaxRespDays == 1
\* finished worker tasks that have cleared the flag and not yet deleted themselves
MaxExiting == 1

\* frames of the built-in animations (animations/anim_*.h)
IdleFrames == 2
WinkFrames == 2
SurprisedFrames == 2
DizzyFrames == 3
\* the longest animation registerAnimation() is given
MaxCustomFrames == 2
\* the delay of one frame, ms (1000 / fps, or the entry of the delay table)
FrameDelayMs == 500
\* how many times the clock is advanced while the engine's methods are called
MaxAnimTicks == 4

\* GeoLocationClient: 2 providers x TIMEOUT_MS 10000; WeatherClient: TIMEOUT_MS 15000
FetchBudgetMs == 2 * 10000 + 15000

\* the clock advances by a retry delay (which is past the stabilization window
\* and below the minimum interval) or by five hours (past the weather TTL)
TimeStepsMs ==
    { RETRY_DELAY_SECS * 1000,
      (WEATHER_CACHE_SECS + 3600) * 1000 }

VARIABLES
    \* --- environment
    nowMs,                 \* millis()
    ticks,                 \* clock advances so far (bounded by MaxTicks)
    forced,                \* calls of forceUpdate() so far (bounded by MaxForced)
    wifi,                  \* WiFi.status() == WL_CONNECTED
    nvs,                   \* Preferences namespace "weather"
    \* --- WeatherService fields
    state_, enabled_, updateIntervalSecs_,
    locationFetchTime_, weatherFetchTime_, lastAttemptTime_, nextUpdateTime_,
    wifiConnectedTimeMs_, retryCount_, wasConnected_,
    fetchInProgress_, fetchNeedsLocation_,
    location_, forecast_,
    \* --- the worker task (fetchTaskWrapper / fetchTask)
    wpc,                   \* position of the running worker, "none" if there is none
    running,               \* worker tasks created and still inside fetchTask()
    wNow,                  \* fetchTask's local `now`
    wDaysLeft,             \* parseResponse: days of the response still to convert
    exiting,               \* workers past `fetchInProgress_ = false`, before vTaskDelete
    \* --- the weather view of the main loop (updateWeatherViewMode)
    vpc,                   \* "idle", or "checked" once hasValidData() has passed and
                           \* the day loop is about to read the records
    \* --- history (not program state)
    hFetch,                \* facts about the fetch in flight (NoFetch when there is
                           \* none); those about the moment of its start are kept
                           \* until the worker's first step
    hSinceStart,           \* seconds of the clock since the most recent fetch start,
                           \* counted up to MIN_UPDATE_INTERVAL_SECS; -1 if none
    hSinceUpdStart,        \* same, for the most recent start by update()
    hSinceUpMs,            \* ms since WiFi last went from disconnected to connected,
                           \* counted up to WIFI_STABILIZE_MS; -1 while disconnected
    hConsec,               \* failed requests (stages) in a row: 0 after a success,
                           \* 1 again after a run of MAX_RETRIES
    hCreateFailed,         \* the most recent start failed in xTaskCreate
    \* --- AnimationEngine
    animator,              \* the fields of the engine
    aticks,                \* clock advances so far (bounded by MaxAnimTicks)
    hRun,                  \* history: the playback started by the last play()
    \* --- main.cpp: loop() and the globals of the application modes
    currentMode,           \* AppMode
    isShaking, lastShakeTime,
    wasPlaying,            \* the static of updateAnimationsMode()
    lastMenuActivity,
    lastBlinkTime, nextBlinkDelay, lastWinkCheck, nextWinkDelay,
    lpc,                   \* the statement of loop() that runs next
    currentTime,           \* loop()'s local, millis() at its first statement
    loops,                 \* iterations of loop() so far (bounded by MaxLoops)
    hDizzy,                \* history: the Dizzy episode a Shake started
    hBack,                 \* history: the last return to the Animations mode
    \* --- MenuSystem and the MenuItem objects of main.cpp
    menuSystem,            \* the fields of the menu system
    items,                 \* the Value and Toggle items: type, value and range
    encoderEditMode,
    hNav,                  \* history: the last navigate() and the menu before it
    \* --- InputManager and TouchSensor
    button,                \* the fields of a Button or of a TouchSensor
    encoder,               \* the fields of the RotaryEncoder
    hIn,                   \* history: debounced changes, releases, detents
    \* --- WiFiManager
    wifiMgr,               \* the fields of the manager, and the WiFi driver
    prefs,                 \* Preferences namespace "wifi"
    hWifi,                 \* history: boots, submissions of credentials
    \* --- DisplayManager
    display,               \* the panel: powered or not
    hActivity,             \* history: the last input event
    \* --- AnimationStateMachine
    behaviour,             \* the fields of the state machine
    hBeh,                  \* history: stopReaction() has taken effect
    \* --- the network the WiFi manager joins
    hLink,                 \* history: "lost" once an established connection
                           \* broke with the network gone, "back" once the
                           \* network is there again, "up" otherwise
    \* --- main.cpp: the Pomodoro timer
    pomodoro,              \* pomodoroState, pomodoroTargetMs,
                           \* pomodoroPausedRemaining, pomodoroCount, and the
                           \* static lastUpdate of updatePomodoroViewMode()
    \* --- a MenuItem that is given children
    parent                 \* _children, _childCount, _childCapacity, _type

envVars == <<nowMs, ticks, forced, wifi, nvs>>
svcVars == <<state_, enabled_, updateIntervalSecs_, locationFetchTime_,
             weatherFetchTime_, lastAttemptTime_, nextUpdateTime_,
             wifiConnectedTimeMs_, retryCount_, wasConnected_,
             fetchInProgress_, fetchNeedsLocation_, location_, forecast_>>
workerVars == <<wpc, running, wNow, wDaysLeft, exiting>>
viewVars == <<vpc>>
histVars == <<hFetch, hSinceStart, hSinceUpdStart, hSinceUpMs, hConsec, hCreateFailed>>
weatherVars == <<envVars, svcVars, workerVars, viewVars, histVars>>
\* the weather service's variables but the clock
weatherRest == <<ticks, forced, wifi, nvs, svcVars, workerVars, viewVars, histVars>>
engineVars == <<animator, aticks, hRun>>
loopVars == <<currentMode, isShaking, lastShakeTime, wasPlaying,
              lastMenuActivity, lastBlinkTime, nextBlinkDelay, lastWinkCheck,
              nextWinkDelay, lpc, currentTime, loops, hDizzy, hBack>>
\* what the engine's methods, called on their own, leave alone
menuVars == <<menuSystem, items, encoderEditMode, hNav>>
\* the parts of the firmware that the input and WiFi models leave alone
displayVars == <<display, hActivity>>
behaviourVars == <<behaviour, hBeh>>
appVars == <<displayVars, behaviourVars, hLink, pomodoro, parent>>
ioVars == <<button, encoder, hIn, wifiMgr, prefs, hWifi, appVars>>
uiVars == <<loopVars, menuVars, ioVars>>
\* what the weather service leaves alone
asideVars == <<engineVars, uiVars>>
vars == <<weatherVars, engineVars, uiVars>>

\* ------------------------------------------------------------------------
\* Data
\* ------------------------------------------------------------------------
\* GeoLocation: `data` says whether latitude/longitude/city/country are filled
\* (TRUE) or zeroed (FALSE)
NoLocation == [valid |-> FALSE, data |-> FALSE]
SomeLocation == [valid |-> TRUE, data |-> TRUE]

\* WeatherForecast: days[i] is DailyForecast::valid of entry i (1-based here);
\* an entry that is not valid holds the reset values (999 / -999 / empty date)
NoDays == [i \in 1..FORECAST_DAYS |-> FALSE]
NoForecast == [valid |-> FALSE, dayCount |-> 0, days |-> NoDays]
ForecastOf(n) ==
    [valid |-> n > 0, dayCount |-> n, days |-> [i \in 1..FORECAST_DAYS |-> i <= n]]

\* millis() / 1000
Secs(ms) == ms \div 1000
now == Secs(nowMs)

\* (uint32_t)(a - b) < lim, for 0 <= a, b, lim < 2^31.  When a < b the
\* difference wraps to 2^32 - (b - a), which is below lim iff
\* (b - a) - 2^31 - 1 > 2^31 - 1 - lim.
U32SubLess(a, b, lim) ==
    IF a >= b THEN a - b < lim
    ELSE ((b - a) - U32_HALF) - 2 > U32_HALF - lim

\* ------------------------------------------------------------------------
\* WeatherService: queries
\* ------------------------------------------------------------------------
isFetching == fetchInProgress_

hasValidData == forecast_.valid /\ location_.valid

isLocationCacheValid ==
    IF ~location_.valid \/ locationFetchTime_ = 0 THEN FALSE
    ELSE U32SubLess(now, locationFetchTime_, LOCATION_CACHE_SECS)

\* variant: isWeatherCacheValid() without the test of weatherFetchTime_ == 0
isWeatherCacheValidNoZeroTest ==
    IF ~forecast_.valid THEN FALSE
    ELSE U32SubLess(now, weatherFetchTime_, WEATHER_CACHE_SECS)

isWeatherCacheValid ==
    IF ~forecast_.valid \/ weatherFetchTime_ = 0 THEN FALSE
    ELSE U32SubLess(now, weatherFetchTime_, WEATHER_CACHE_SECS)

\* ------------------------------------------------------------------------
\* Persistent storage and construction
\* ------------------------------------------------------------------------
\* what an earlier boot may have left in NVS: nothing, a location and a
\* forecast, or a location alone; fetch times are uptime seconds of that boot
SavedNvs(e, hl, lt, fc, ft) ==
    [enabled |-> e, hasLoc |-> hl, locTime |-> lt, fcCount |-> fc, fcTime |-> ft]

NvsContents ==
    { SavedNvs(FALSE, FALSE, 0, 0, 0),
      SavedNvs(FALSE, TRUE, SavedEarlySecs, MaxRespDays, SavedEarlySecs),
      SavedNvs(FALSE, TRUE, SavedLateSecs, 0, 0) }

\* loadCacheFromNVS(): the location is restored when its keys exist, the
\* forecast when 0 < fc_count <= 4
loadedLocation(n) == IF n.hasLoc THEN SomeLocation ELSE NoLocation

loadedForecast(n) ==
    IF n.fcCount > 0 /\ n.fcCount <= FORECAST_DAYS THEN ForecastOf(n.fcCount)
    ELSE NoForecast

\* init(): state after loading the cache
loadedState(loc, fc) ==
    IF loc.valid /\ fc.valid THEN "CACHED"
    ELSE IF loc.valid \/ fc.valid THEN "STALE"
    ELSE "IDLE"

\* the history of one fetch: who started it and in which circumstances, what
\* it has requested and how it went
NoFetch ==
    [by |-> "none", wifi |-> FALSE, sinceUpOk |-> FALSE, seenOk |-> FALSE,
     agedWeather |-> FALSE, oldLoc |-> NoLocation, oldFc |-> NoForecast,
     gap |-> "none", updGap |-> "none", didLocReq |-> FALSE, outcome |-> "none"]

\* WeatherService::WeatherService() followed by init(), as setup() runs them
InitWeather ==
    /\ nowMs = SetupMs
    /\ ticks = 0
    /\ forced = 0
    /\ wifi = FALSE
    /\ nvs \in NvsContents
    /\ enabled_ = nvs.enabled
    /\ updateIntervalSecs_ = DEFAULT_UPDATE_INTERVAL
    /\ location_ = loadedLocation(nvs)
    /\ forecast_ = loadedForecast(nvs)
    /\ locationFetchTime_ = (IF nvs.hasLoc THEN nvs.locTime ELSE 0)
    /\ weatherFetchTime_ = (IF nvs.fcCount > 0 THEN nvs.fcTime ELSE 0)
    /\ state_ = loadedState(location_, forecast_)
    /\ lastAttemptTime_ = 0
    /\ nextUpdateTime_ = Secs(SetupMs) + FIRST_CHECK_SECS
    /\ wifiConnectedTimeMs_ = 0
    /\ retryCount_ = 0
    /\ wasConnected_ = FALSE
    /\ fetchInProgress_ = FALSE
    /\ fetchNeedsLocation_ = FALSE
    /\ wpc = "none" /\ running = 0 /\ wNow = 0 /\ wDaysLeft = 0 /\ exiting = 0
    /\ vpc = "idle"
    /\ hFetch = NoFetch
    /\ hSinceStart = -1 /\ hSinceUpdStart = -1
    /\ hSinceUpMs = -1
    /\ hConsec = 0
    /\ hCreateFailed = FALSE

\* ------------------------------------------------------------------------
\* History of fetch starts
\* ------------------------------------------------------------------------
Min(a, b) == IF a < b THEN a ELSE b

\* a history counter advanced by d and held at cap; -1 stays -1
Elapsed(since, d, cap) == IF since < 0 THEN since ELSE Min(since + d, cap)

GapClass(since) ==
    IF since < 0 THEN "none"
    ELSE IF since < MIN_UPDATE_INTERVAL_SECS THEN "short"
    ELSE "ok"

\* both records valid, the location younger than its 7 days and the forecast
\* at least an hour past its 4 hours
AgedWeather ==
    /\ location_.valid /\ forecast_.valid
    /\ locationFetchTime_ > 0 /\ weatherFetchTime_ > 0
    /\ now >= locationFetchTime_
    /\ now - locationFetchTime_ < LOCATION_CACHE_SECS
    /\ now >= weatherFetchTime_
    /\ now - weatherFetchTime_ >= WEATHER_CACHE_SECS + 3600

StartFacts(by) ==
    [by |-> by,
     wifi |-> wifi,
     sinceUpOk |-> hSinceUpMs >= WIFI_STABILIZE_MS,
     seenOk |-> /\ wasConnected_
                /\ wifiConnectedTimeMs_ > 0
                /\ nowMs - wifiConnectedTimeMs_ >= WIFI_STABILIZE_MS,
     agedWeather |-> AgedWeather,
     oldLoc |-> location_,
     oldFc |-> forecast_,
     gap |-> GapClass(hSinceStart),
     updGap |-> IF by = "update" THEN GapClass(hSinceUpdStart) ELSE "none",
     didLocReq |-> FALSE,
     outcome |-> "none"]

NoteStart(by) ==
    /\ hFetch' = StartFacts(by)
    /\ hSinceStart' = 0
    /\ hSinceUpdStart' = (IF by = "update" THEN 0 ELSE hSinceUpdStart)
    /\ hCreateFailed' = FALSE
    /\ UNCHANGED <<hSinceUpMs, hConsec>>

NoteCreateFailed ==
    /\ hCreateFailed' = TRUE
    /\ UNCHANGED <<hFetch, hSinceStart, hSinceUpdStart, hSinceUpMs, hConsec>>

\* ------------------------------------------------------------------------
\* WeatherService: operations of the main loop
\* ------------------------------------------------------------------------
\* variant: startBackgroundFetch() that leaves fetchInProgress_ unset
startBackgroundFetchFlagUnset(includeLocation, created, by) ==
    /\ ~fetchInProgress_
    /\ fetchNeedsLocation_' = includeLocation
    /\ fetchInProgress_' = FALSE
    /\ IF created
       THEN /\ state_' = (IF includeLocation THEN "FETCHING_LOCATION"
                          ELSE "FETCHING_WEATHER")
            /\ wpc' = "begin"
            /\ running' = running + 1
            /\ NoteStart(by)
       ELSE /\ state_' = "ERROR"
            /\ wpc' = wpc
            /\ running' = running
            /\ NoteCreateFailed
    /\ UNCHANGED <<wNow, wDaysLeft, exiting>>

\* startBackgroundFetch(includeLocation); `created` is whether xTaskCreate
\* returned pdPASS.  The callers have already tested fetchInProgress_.
startBackgroundFetch(includeLocation, created, by) ==
    /\ ~fetchInProgress_
    /\ fetchNeedsLocation_' = includeLocation
    /\ IF created
       THEN /\ fetchInProgress_' = TRUE
            /\ state_' = (IF includeLocation THEN "FETCHING_LOCATION"
                          ELSE "FETCHING_WEATHER")
            /\ wpc' = "begin"
            /\ running' = running + 1
            /\ NoteStart(by)
       ELSE /\ fetchInProgress_' = FALSE
            /\ state_' = "ERROR"
            /\ wpc' = wpc
            /\ running' = running
            /\ NoteCreateFailed
    /\ UNCHANGED <<wNow, wDaysLeft, exiting>>

\* variant: the stabilization test with its comparison turned round
StabilizingInverted ==
    wifiConnectedTimeMs_ > 0 /\ nowMs - wifiConnectedTimeMs_ > WIFI_STABILIZE_MS

\* update(): the WiFi stabilization test
Stabilizing ==
    wifiConnectedTimeMs_ > 0 /\ nowMs - wifiConnectedTimeMs_ < WIFI_STABILIZE_MS

\* variant: the minimum interval test made against the retry delay
TooSoonByRetryDelay ==
    U32SubLess(now, lastAttemptTime_, RETRY_DELAY_SECS) /\ lastAttemptTime_ # 0

\* update(): the minimum interval between attempts
TooSoon ==
    U32SubLess(now, lastAttemptTime_, MIN_UPDATE_INTERVAL_SECS) /\ lastAttemptTime_ # 0

\* variant: update() that asks for the location whenever it fetches
needsLocationAlways == TRUE

needsLocation == ~isLocationCacheValid
needsWeather == ~isWeatherCacheValid

\* the fields update() may write besides those startBackgroundFetch writes
updQuiet == <<hFetch, hSinceStart, hSinceUpdStart, hSinceUpMs, hConsec, hCreateFailed,
              workerVars, state_, fetchInProgress_, fetchNeedsLocation_>>

\* update(), called by loop() on every iteration
Update ==
    /\ vpc = "idle"
    /\ enabled_
    /\ ~fetchInProgress_
    /\ IF wifi /\ ~wasConnected_
       THEN /\ wifiConnectedTimeMs_' = nowMs
            /\ wasConnected_' = TRUE
            /\ UNCHANGED <<nextUpdateTime_, lastAttemptTime_, updQuiet>>
       ELSE IF ~wifi
       THEN /\ wasConnected_' = FALSE
            /\ wifiConnectedTimeMs_' = 0
            /\ UNCHANGED <<nextUpdateTime_, lastAttemptTime_, updQuiet>>
       ELSE IF Stabilizing \/ now < nextUpdateTime_
       THEN UNCHANGED <<wifiConnectedTimeMs_, wasConnected_, nextUpdateTime_,
                        lastAttemptTime_, updQuiet>>
       ELSE IF ~needsLocation /\ ~needsWeather
       THEN /\ nextUpdateTime_' = now + RECHECK_SECS
            /\ UNCHANGED <<wifiConnectedTimeMs_, wasConnected_, lastAttemptTime_, updQuiet>>
       ELSE IF TooSoon
       THEN /\ nextUpdateTime_' = lastAttemptTime_ + MIN_UPDATE_INTERVAL_SECS
            /\ UNCHANGED <<wifiConnectedTimeMs_, wasConnected_, lastAttemptTime_, updQuiet>>
       ELSE /\ lastAttemptTime_' = now
            /\ \E created \in BOOLEAN :
                  startBackgroundFetch(needsLocation, created, "update")
            /\ UNCHANGED <<wifiConnectedTimeMs_, wasConnected_, nextUpdateTime_>>
    /\ UNCHANGED <<envVars, viewVars, enabled_, updateIntervalSecs_, locationFetchTime_,
                   weatherFetchTime_, retryCount_, location_, forecast_>>

\* forceUpdate() gets past its two tests
forceUpdateProceeds == ~fetchInProgress_ /\ wifi

\* forceUpdate(); when it returns false it has changed nothing
ForceUpdate ==
    /\ vpc = "idle"
    /\ forced < MaxForced
    /\ forced' = forced + 1
    /\ forceUpdateProceeds
    /\ \E created \in BOOLEAN : startBackgroundFetch(TRUE, created, "force")
    /\ UNCHANGED <<nowMs, ticks, wifi, nvs, viewVars, enabled_, updateIntervalSecs_,
                   locationFetchTime_,
                   weatherFetchTime_, lastAttemptTime_, nextUpdateTime_,
                   wifiConnectedTimeMs_, retryCount_, wasConnected_, location_, forecast_>>

\* setEnabled(enabled): the menu toggle and the settings page
SetEnabled(enabled) ==
    /\ vpc = "idle"
    /\ enabled_' = enabled
    /\ nvs' = [nvs EXCEPT !.enabled = enabled]
    /\ UNCHANGED <<nowMs, ticks, forced, wifi, workerVars, viewVars, histVars,
                   state_, updateIntervalSecs_, locationFetchTime_, weatherFetchTime_,
                   lastAttemptTime_, nextUpdateTime_, wifiConnectedTimeMs_, retryCount_,
                   wasConnected_, fetchInProgress_, fetchNeedsLocation_, location_, forecast_>>

\* ------------------------------------------------------------------------
\* The worker task: fetchTaskWrapper() -> fetchTask()
\* ------------------------------------------------------------------------
\* variant: the ceiling test made with > instead of >=
retryCeilingExceeded(count) == count > MAX_RETRIES

\* variant: a failure below the ceiling scheduled like one at the ceiling
retryDelayFullInterval == updateIntervalSecs_

\* fetchTask(): retryCount_ >= MAX_RETRIES, after the increment
retryCeilingReached(count) == count >= MAX_RETRIES

\* fetchTask(): the delay scheduled after a failure below the ceiling
retryDelay == RETRY_DELAY_SECS

\* fetchTask(): the branch taken when fetchLocation() or fetchWeather() has
\* returned false; success = false, so the worker goes on to its last lines
StageFailed ==
    /\ IF retryCeilingReached(retryCount_ + 1)
       THEN /\ state_' = "ERROR"
            /\ nextUpdateTime_' = wNow + updateIntervalSecs_
            /\ retryCount_' = 0
       ELSE /\ state_' = state_
            /\ nextUpdateTime_' = wNow + retryDelay
            /\ retryCount_' = retryCount_ + 1
    /\ wpc' = "finish"
    /\ hFetch' = [hFetch EXCEPT !.outcome = "fail"]
    /\ hConsec' = (IF hConsec >= MAX_RETRIES THEN 1 ELSE hConsec + 1)
    /\ UNCHANGED <<hSinceStart, hSinceUpdStart, hSinceUpMs, hCreateFailed>>

\* the fields no step of the worker writes
workerQuiet == <<envVars, viewVars, enabled_, updateIntervalSecs_, lastAttemptTime_,
                 wifiConnectedTimeMs_, wasConnected_, fetchNeedsLocation_, running,
                 exiting>>

\* fetchTask(): `now = millis() / 1000`, then the choice of the first stage
FetchTaskBegin ==
    /\ wpc = "begin"
    /\ wNow' = now
    /\ wpc' = (IF fetchNeedsLocation_ THEN "loc" ELSE "wx")
    /\ hFetch' = [hFetch EXCEPT !.wifi = FALSE, !.sinceUpOk = FALSE, !.seenOk = FALSE,
                                !.gap = "none", !.updGap = "none"]
    /\ UNCHANGED <<workerQuiet, hSinceStart, hSinceUpdStart, hSinceUpMs, hConsec,
                   hCreateFailed, wDaysLeft, state_, locationFetchTime_,
                   weatherFetchTime_, nextUpdateTime_, retryCount_, fetchInProgress_,
                   location_, forecast_>>

\* fetchLocation() up to the HTTP request: its own WiFi test, then
\* GeoLocationClient::fetchLocation() resets the live record and tests WiFi again
LocationBegin ==
    /\ wpc = "loc"
    /\ IF ~wifi
       THEN /\ StageFailed
            /\ UNCHANGED location_
       ELSE /\ location_' = NoLocation
            /\ wpc' = "locReq"
            /\ hFetch' = [hFetch EXCEPT !.didLocReq = TRUE]
            /\ UNCHANGED <<state_, nextUpdateTime_, retryCount_, hSinceStart,
                           hSinceUpdStart, hSinceUpMs, hConsec, hCreateFailed>>
    /\ UNCHANGED <<workerQuiet, wNow, wDaysLeft, locationFetchTime_, weatherFetchTime_,
                   fetchInProgress_, forecast_>>

\* GeoLocationClient::fetchLocation(): the providers are tried in turn;
\* parseResponse() fills the record and sets valid when one of them answers
LocationRequest ==
    /\ wpc = "locReq"
    /\ \E answered \in BOOLEAN :
          /\ answered => wifi
          /\ IF answered
             THEN /\ location_' = SomeLocation
                  /\ wpc' = "locSave"
                  /\ UNCHANGED <<state_, nextUpdateTime_, retryCount_, histVars>>
             ELSE /\ StageFailed
                  /\ UNCHANGED location_
    /\ UNCHANGED <<workerQuiet, wNow, wDaysLeft, locationFetchTime_, weatherFetchTime_,
                   fetchInProgress_, forecast_>>

\* fetchLocation() after the client has returned true: stamp and persist;
\* fetchTask() then clears retryCount_ and sets FETCHING_WEATHER
LocationSave ==
    /\ wpc = "locSave"
    /\ locationFetchTime_' = now
    /\ nvs' = [nvs EXCEPT !.hasLoc = TRUE, !.locTime = now]
    /\ retryCount_' = 0
    /\ state_' = "FETCHING_WEATHER"
    /\ wpc' = "wx"
    /\ hConsec' = 0
    /\ UNCHANGED <<nowMs, ticks, forced, wifi, viewVars, enabled_, updateIntervalSecs_,
                   lastAttemptTime_, wifiConnectedTimeMs_, wasConnected_,
                   fetchNeedsLocation_, running, exiting, wNow, wDaysLeft,
                   weatherFetchTime_, nextUpdateTime_, fetchInProgress_, location_,
                   forecast_, hFetch, hSinceStart, hSinceUpdStart, hSinceUpMs,
                   hCreateFailed>>

\* fetchWeather() up to the HTTP request: the location and WiFi tests, then
\* WeatherClient::fetchForecast() resets the live record
WeatherBegin ==
    /\ wpc = "wx"
    /\ IF ~location_.valid \/ ~wifi
       THEN /\ StageFailed
            /\ UNCHANGED <<forecast_, wDaysLeft>>
       ELSE /\ forecast_' = NoForecast
            /\ wpc' = "wxReq"
            /\ UNCHANGED <<state_, nextUpdateTime_, retryCount_, histVars, wDaysLeft>>
    /\ UNCHANGED <<workerQuiet, wNow, locationFetchTime_, weatherFetchTime_,
                   fetchInProgress_, location_>>

\* WeatherClient::fetchForecast(): the GET and the aggregation of the payload
\* into n days; no answer, a failed parse and an empty series are n = 0, which
\* leaves forecast.valid false
WeatherRequest ==
    /\ wpc = "wxReq"
    /\ \E n \in 0..MaxRespDays :
          /\ n > 0 => wifi
          /\ IF n > 0
             THEN /\ forecast_' = [forecast_ EXCEPT !.dayCount = 0]
                  /\ wDaysLeft' = n
                  /\ wpc' = "parse"
                  /\ UNCHANGED <<state_, nextUpdateTime_, retryCount_, histVars>>
             ELSE /\ StageFailed
                  /\ UNCHANGED <<forecast_, wDaysLeft>>
    /\ UNCHANGED <<workerQuiet, wNow, locationFetchTime_, weatherFetchTime_,
                   fetchInProgress_, location_>>

\* parseResponse(): one turn of the conversion loop
ParseDay ==
    /\ wpc = "parse"
    /\ wDaysLeft > 0
    /\ forecast_.dayCount < FORECAST_DAYS
    /\ forecast_' = [forecast_ EXCEPT !.days[forecast_.dayCount + 1] = TRUE,
                                      !.dayCount = forecast_.dayCount + 1]
    /\ wDaysLeft' = wDaysLeft - 1
    /\ UNCHANGED <<workerQuiet, histVars, wpc, wNow, state_, locationFetchTime_,
                   weatherFetchTime_, nextUpdateTime_, retryCount_, fetchInProgress_,
                   location_>>

\* parseResponse(): forecast.valid = (forecast.dayCount > 0)
ParseDone ==
    /\ wpc = "parse"
    /\ wDaysLeft = 0 \/ forecast_.dayCount = FORECAST_DAYS
    /\ forecast_' = [forecast_ EXCEPT !.valid = forecast_.dayCount > 0]
    /\ wDaysLeft' = 0
    /\ wpc' = "wxSave"
    /\ UNCHANGED <<workerQuiet, histVars, wNow, state_, locationFetchTime_,
                   weatherFetchTime_, nextUpdateTime_, retryCount_, fetchInProgress_,
                   location_>>

\* fetchWeather() after the client has returned true: stamp and persist;
\* fetchTask() then clears retryCount_, sets CACHED and schedules the next update
WeatherSave ==
    /\ wpc = "wxSave"
    /\ weatherFetchTime_' = now
    /\ nvs' = [nvs EXCEPT !.fcCount = forecast_.dayCount, !.fcTime = now]
    /\ retryCount_' = 0
    /\ state_' = "CACHED"
    /\ nextUpdateTime_' = wNow + updateIntervalSecs_
    /\ wpc' = "finish"
    /\ hFetch' = [hFetch EXCEPT !.outcome = "ok"]
    /\ hConsec' = 0
    /\ UNCHANGED <<nowMs, ticks, forced, wifi, viewVars, enabled_, updateIntervalSecs_,
                   lastAttemptTime_, wifiConnectedTimeMs_, wasConnected_,
                   fetchNeedsLocation_, running, exiting, wNow, wDaysLeft,
                   locationFetchTime_, fetchInProgress_, location_, forecast_,
                   hSinceStart, hSinceUpdStart, hSinceUpMs, hCreateFailed>>

\* variant: fetchTask() that returns without clearing fetchInProgress_
FetchTaskEndFlagKept ==
    /\ wpc = "finish"
    /\ exiting < MaxExiting
    /\ wpc' = "none"
    /\ running' = running - 1
    /\ exiting' = exiting + 1
    /\ wNow' = 0
    /\ hFetch' = NoFetch
    /\ UNCHANGED <<envVars, svcVars, viewVars, wDaysLeft, hSinceStart,
                   hSinceUpdStart, hSinceUpMs, hConsec, hCreateFailed>>

\* fetchTask(): fetchTaskHandle_ = nullptr; fetchInProgress_ = false; the task
\* then returns into fetchTaskWrapper()
FetchTaskEnd ==
    /\ wpc = "finish"
    /\ exiting < MaxExiting
    /\ fetchInProgress_' = FALSE
    /\ wpc' = "none"
    /\ running' = running - 1
    /\ exiting' = exiting + 1
    /\ wNow' = 0
    /\ hFetch' = NoFetch
    /\ UNCHANGED <<envVars, viewVars, wDaysLeft, state_, enabled_, updateIntervalSecs_,
                   locationFetchTime_, weatherFetchTime_, lastAttemptTime_,
                   nextUpdateTime_, wifiConnectedTimeMs_, retryCount_, wasConnected_,
                   fetchNeedsLocation_, location_, forecast_, hSinceStart,
                   hSinceUpdStart, hSinceUpMs, hConsec, hCreateFailed>>

\* fetchTaskWrapper(): vTaskDelete(nullptr)
TaskDelete ==
    /\ exiting > 0
    /\ exiting' = exiting - 1
    /\ UNCHANGED <<envVars, svcVars, viewVars, histVars, wpc, running, wNow, wDaysLeft>>

\* WeatherFetch tasks that exist
liveTasks == running + exiting

WorkerStep ==
    \/ FetchTaskBegin \/ LocationBegin \/ LocationRequest \/ LocationSave
    \/ WeatherBegin \/ WeatherRequest \/ ParseDay \/ ParseDone \/ WeatherSave
    \/ FetchTaskEnd

\* ------------------------------------------------------------------------
\* The weather view of the main loop: updateWeatherViewMode()
\* ------------------------------------------------------------------------
\* hasValidData() has returned true; the function goes on to read the records
ViewCheck ==
    /\ vpc = "idle"
    /\ hasValidData
    /\ vpc' = "checked"
    /\ UNCHANGED <<envVars, svcVars, workerVars, histVars>>

\* what the view relies on after its test: a filled location, and a forecast
\* whose valid flag and dayCount agree with its day entries
recordWhole ==
    /\ location_.valid /\ location_.data
    /\ forecast_.valid /\ forecast_.dayCount > 0
    /\ \A i \in 1..FORECAST_DAYS : forecast_.days[i] = (i <= forecast_.dayCount)

\* location.city, forecast.dayCount and forecast.days[i] are read and drawn
ViewDays ==
    /\ vpc = "checked"
    /\ vpc' = "idle"
    /\ UNCHANGED <<envVars, svcVars, workerVars, histVars>>

\* ------------------------------------------------------------------------
\* Environment: the WiFi link and the clock
\* ------------------------------------------------------------------------
\* The link changes state; a task that has returned deletes itself at once,
\* before anything else changes around it.
WifiUp ==
    /\ ~wifi
    /\ exiting = 0
    /\ wifi' = TRUE
    /\ hSinceUpMs' = 0
    /\ UNCHANGED <<nowMs, ticks, forced, nvs, svcVars, workerVars, viewVars, hFetch,
                   hSinceStart, hSinceUpdStart, hConsec, hCreateFailed>>

WifiDown ==
    /\ wifi
    /\ exiting = 0
    /\ wifi' = FALSE
    /\ hSinceUpMs' = -1
    /\ UNCHANGED <<nowMs, ticks, forced, nvs, svcVars, workerVars, viewVars, hFetch,
                   hSinceStart, hSinceUpdStart, hConsec, hCreateFailed>>

\* loop() calls update() on every iteration, some 10 ms apart: when the clock
\* has advanced by a step, update() has long done what it had to do
updateSettled ==
    \/ ~enabled_
    \/ fetchInProgress_
    \/ /\ wasConnected_ = wifi
       /\ ~wifi => wifiConnectedTimeMs_ = 0
       /\ wifi => Stabilizing \/ now < nextUpdateTime_

\* millis() advances by d.  The view function and the exit of a task take far
\* less than any step; a worker spends its time in the HTTP requests, and a
\* fetch in flight ends within its request timeouts.
Tick(d) ==
    /\ ticks < MaxTicks
    /\ nowMs <= MaxUptimeMs - d
    /\ vpc = "idle"
    /\ exiting = 0
    /\ updateSettled
    /\ wpc \in {"none", "locReq", "wxReq"}
    /\ wpc # "none" => d <= FetchBudgetMs
    /\ nowMs' = nowMs + d
    /\ ticks' = ticks + 1
    /\ hSinceUpMs' = Elapsed(hSinceUpMs, d, WIFI_STABILIZE_MS)
    /\ hSinceStart' = Elapsed(hSinceStart, Secs(nowMs + d) - now, MIN_UPDATE_INTERVAL_SECS)
    /\ hSinceUpdStart' =
           Elapsed(hSinceUpdStart, Secs(nowMs + d) - now, MIN_UPDATE_INTERVAL_SECS)
    /\ UNCHANGED <<forced, wifi, nvs, svcVars, workerVars, viewVars, hFetch, hConsec,
                   hCreateFailed>>

\* ------------------------------------------------------------------------
\* AnimationEngine: data
\* ------------------------------------------------------------------------
\* enum class AnimState: the 8 keys of the registry
AnimStates ==
    {"IDLE", "WINK", "SURPRISED", "DIZZY", "SLEEPING", "THINKING", "SAD", "CUSTOM"}

\* struct Animation, reduced to what the engine decides on
Animation(name, frameCount, loop) ==
    [name |-> name, frameCount |-> frameCount, loop |-> loop]

\* nullptr
NoAnimation == Animation("null", 0, FALSE)

\* the four animations of animations/anim_*.h: played once, or looped by force
BuiltIn(state) ==
    CASE state = "IDLE" -> Animation("idle", IdleFrames, FALSE)
      [] state = "WINK" -> Animation("wink", WinkFrames, FALSE)
      [] state = "SURPRISED" -> Animation("surprised", SurprisedFrames, FALSE)
      [] state = "DIZZY" -> Animation("dizzy", DizzyFrames, FALSE)
      [] OTHER -> NoAnimation

\* the animations a caller of registerAnimation() may bring
CustomAnimations ==
    { Animation("custom", n, l) : n \in 1..MaxCustomFrames, l \in BOOLEAN }

\* AnimationEngine::AnimationEngine()
AnimationEngine0 ==
    [currentState |-> "IDLE",
     currentAnimation |-> NoAnimation,
     currentFrame |-> 0,
     lastFrameTime |-> 0,
     playing |-> FALSE,
     paused |-> FALSE,
     forceLoop |-> FALSE,
     continuousLoop |-> FALSE,
     animations |-> [s \in AnimStates |-> NoAnimation]]

\* ------------------------------------------------------------------------
\* AnimationEngine: methods (e is the engine before the call, t is millis())
\* ------------------------------------------------------------------------
isPlaying(e) == e.playing
getCurrentState(e) == e.currentState
getCurrentFrame(e) == e.currentFrame

\* getAnimation(state): the enum's ordinal is always below 8
getAnimation(e, state) == e.animations[state]

registerAnimation(e, state, animation) ==
    [e EXCEPT !.animations[state] = animation]

\* variant: play() without the test that protects a non-looping animation
playProceedsOverNonLooping(e, state, priority) ==
    /\ ~(e.currentState = state /\ e.playing /\ ~priority)
    /\ getAnimation(e, state) # NoAnimation

\* play(): none of its three early returns is taken
playProceeds(e, state, priority) ==
    /\ ~(e.currentState = state /\ e.playing /\ ~priority)
    /\ ~(e.playing /\ ~e.currentAnimation.loop /\ ~priority)
    /\ getAnimation(e, state) # NoAnimation

play(e, state, priority, forceLoop, t) ==
    IF ~playProceeds(e, state, priority) THEN e
    ELSE [e EXCEPT !.currentState = state,
                   !.currentAnimation = getAnimation(e, state),
                   !.currentFrame = 0,
                   !.lastFrameTime = t,
                   !.playing = TRUE,
                   !.paused = FALSE,
                   !.forceLoop = forceLoop,
                   !.continuousLoop = forceLoop]

stop(e) == [e EXCEPT !.playing = FALSE, !.currentFrame = 0]

setPaused(e, paused, t) ==
    [e EXCEPT !.paused = paused,
              !.lastFrameTime = IF paused THEN e.lastFrameTime ELSE t]

onAnimationComplete(e) ==
    [e EXCEPT !.playing = FALSE, !.continuousLoop = FALSE, !.forceLoop = FALSE]

\* variant: a finished animation is left on its first frame
advanceFrameHoldsFirst(e) ==
    IF e.currentAnimation = NoAnimation THEN e
    ELSE LET f == (e.currentFrame + 1) % 256
         IN  IF f >= e.currentAnimation.frameCount
             THEN IF e.currentAnimation.loop \/ e.continuousLoop
                  THEN [e EXCEPT !.currentFrame = 0]
                  ELSE onAnimationComplete([e EXCEPT !.currentFrame = 0])
             ELSE [e EXCEPT !.currentFrame = f]

\* advanceFrame(): _currentFrame is a uint8_t
advanceFrame(e) ==
    IF e.currentAnimation = NoAnimation THEN e
    ELSE LET f == (e.currentFrame + 1) % 256
         IN  IF f >= e.currentAnimation.frameCount
             THEN IF e.currentAnimation.loop \/ e.continuousLoop
                  THEN [e EXCEPT !.currentFrame = 0]
                  ELSE onAnimationComplete(
                           [e EXCEPT !.currentFrame =
                                         (e.currentAnimation.frameCount - 1) % 256])
             ELSE [e EXCEPT !.currentFrame = f]

\* getFrameDelay(): every frame of every animation takes FrameDelayMs
getFrameDelay(e) == FrameDelayMs

\* update() advances a frame
updateAdvances(e, t) ==
    /\ e.playing /\ ~e.paused /\ e.currentAnimation # NoAnimation
    /\ t - e.lastFrameTime >= getFrameDelay(e)

\* update()
animatorUpdate(e, t) ==
    IF updateAdvances(e, t) THEN advanceFrame([e EXCEPT !.lastFrameTime = t])
    ELSE e

\* variant: pauseOnFrame() that accepts frameIndex == frameCount
pauseOnFrameProceedsAtCount(e, frameIndex) ==
    e.currentAnimation # NoAnimation /\ frameIndex <= e.currentAnimation.frameCount

pauseOnFrameProceeds(e, frameIndex) ==
    e.currentAnimation # NoAnimation /\ frameIndex < e.currentAnimation.frameCount

pauseOnFrame(e, frameIndex) ==
    IF pauseOnFrameProceeds(e, frameIndex)
    THEN [e EXCEPT !.currentFrame = frameIndex, !.paused = TRUE]
    ELSE e

showStaticFrameProceeds(e, state, frameIndex) ==
    /\ getAnimation(e, state) # NoAnimation
    /\ frameIndex < getAnimation(e, state).frameCount

showStaticFrame(e, state, frameIndex) ==
    IF ~showStaticFrameProceeds(e, state, frameIndex) THEN e
    ELSE [e EXCEPT !.currentState = state,
                   !.currentAnimation = getAnimation(e, state),
                   !.currentFrame = frameIndex,
                   !.playing = FALSE,
                   !.paused = FALSE,
                   !.continuousLoop = FALSE,
                   !.forceLoop = FALSE]

\* variant: stopLoopingGracefully() with the body of stopForcedLoop(), which
\* clears _forceLoop (a flag advanceFrame() does not read)
stopLoopingGracefullyClearsForceLoop(e) == [e EXCEPT !.forceLoop = FALSE]

stopLoopingGracefully(e) == [e EXCEPT !.continuousLoop = FALSE]

\* init(): the four built-in animations are registered and IDLE is played
animatorInit(e, t) ==
    play([e EXCEPT !.animations = [s \in AnimStates |-> BuiltIn(s)]],
         "IDLE", FALSE, FALSE, t)

\* ------------------------------------------------------------------------
\* AnimationEngine: its methods called in any order
\* ------------------------------------------------------------------------
\* the history of one playback: whether play() was given forceLoop, whether a
\* call has since moved the frame by hand (pauseOnFrame), the frame advances
\* since play(), and the frame at which stopLoopingGracefully() was called
\* with the advances made since.  `guarded` says that the last call was a
\* play() without priority that found the engine playing the same state or an
\* animation that does not loop; `before` is then the engine before that call.
NoRun ==
    [active |-> FALSE, forced |-> FALSE, clean |-> FALSE, advances |-> 0,
     graceful |-> FALSE, atGraceful |-> 0, sinceGraceful |-> 0,
     guarded |-> FALSE, before |-> AnimationEngine0]

NewRun(forceLoop) ==
    [active |-> TRUE, forced |-> forceLoop, clean |-> TRUE, advances |-> 0,
     graceful |-> FALSE, atGraceful |-> 0, sinceGraceful |-> 0,
     guarded |-> FALSE, before |-> AnimationEngine0]

\* the last call was not such a play()
Unguarded(h) == [h EXCEPT !.guarded = FALSE, !.before = AnimationEngine0]

\* play(state, priority) is called in the case the two early returns are for
playGuardedCase(e, state, priority) ==
    /\ ~priority
    /\ e.playing
    /\ e.currentState = state \/ ~e.currentAnimation.loop

\* setup(): animator.init(); animator.showStaticFrame(AnimState::IDLE, 0)
InitEngine ==
    /\ animator = showStaticFrame(animatorInit(AnimationEngine0, SetupMs), "IDLE", 0)
    /\ aticks = 0
    /\ hRun = NoRun

CallRegisterAnimation(animation) ==
    /\ animator' = registerAnimation(animator, "CUSTOM", animation)
    /\ hRun' = Unguarded(hRun)
    /\ UNCHANGED <<weatherVars, aticks, uiVars>>

CallPlay(state, priority, forceLoop) ==
    /\ animator' = play(animator, state, priority, forceLoop, nowMs)
    /\ LET h == IF playProceeds(animator, state, priority)
                THEN NewRun(forceLoop) ELSE hRun
       IN  hRun' = IF playGuardedCase(animator, state, priority)
                   THEN [h EXCEPT !.guarded = TRUE, !.before = animator]
                   ELSE Unguarded(h)
    /\ UNCHANGED <<weatherVars, aticks, uiVars>>

CallStop ==
    /\ animator' = stop(animator)
    /\ hRun' = NoRun
    /\ UNCHANGED <<weatherVars, aticks, uiVars>>

CallSetPaused(paused) ==
    /\ animator' = setPaused(animator, paused, nowMs)
    /\ hRun' = Unguarded(hRun)
    /\ UNCHANGED <<weatherVars, aticks, uiVars>>

CallUpdate ==
    /\ animator' = animatorUpdate(animator, nowMs)
    /\ hRun' = IF updateAdvances(animator, nowMs) /\ hRun.active
               THEN Unguarded([hRun EXCEPT
                        !.advances = @ + 1,
                        !.sinceGraceful = IF hRun.graceful THEN @ + 1 ELSE @])
               ELSE Unguarded(hRun)
    /\ UNCHANGED <<weatherVars, aticks, uiVars>>

CallPauseOnFrame(frameIndex) ==
    /\ animator' = pauseOnFrame(animator, frameIndex)
    /\ hRun' = IF pauseOnFrameProceeds(animator, frameIndex)
               THEN Unguarded([hRun EXCEPT !.clean = FALSE])
               ELSE Unguarded(hRun)
    /\ UNCHANGED <<weatherVars, aticks, uiVars>>

CallShowStaticFrame(state, frameIndex) ==
    /\ animator' = showStaticFrame(animator, state, frameIndex)
    /\ hRun' = IF showStaticFrameProceeds(animator, state, frameIndex)
               THEN NoRun
               ELSE Unguarded(hRun)
    /\ UNCHANGED <<weatherVars, aticks, uiVars>>

CallStopLoopingGracefully ==
    /\ animator' = stopLoopingGracefully(animator)
    /\ hRun' = IF hRun.active /\ ~hRun.graceful /\ animator.playing
               THEN Unguarded([hRun EXCEPT !.graceful = TRUE,
                                           !.atGraceful = animator.currentFrame])
               ELSE Unguarded(hRun)
    /\ UNCHANGED <<weatherVars, aticks, uiVars>>

\* millis() advances by one frame delay
AnimTick ==
    /\ aticks < MaxAnimTicks
    /\ aticks' = aticks + 1
    /\ nowMs' = nowMs + FrameDelayMs
    /\ hRun' = Unguarded(hRun)
    /\ UNCHANGED <<weatherRest, animator, uiVars>>

\* the arguments a caller passes: a built-in animation, an empty slot of the
\* registry and the slot registerAnimation() fills; every frame index that is
\* valid for one of them and the first that is not
StateArgs == {"DIZZY", "SAD", "CUSTOM"}
FrameArgs == 0..DizzyFrames

\* ------------------------------------------------------------------------
\* AnimationStateMachine (m.sm is the state machine, m.e the engine it drives,
\* t is millis())
\* ------------------------------------------------------------------------
\* the constructor's intervals, seconds
BlinkMinInterval == 3
BlinkMaxInterval == 8
RandomActionMinInterval == 15
RandomActionMaxInterval == 45
\* scheduleNextBlink(), scheduleNextRandomAction(): random(min, max + 1)
BlinkDelaysSecs == {BlinkMinInterval, BlinkMaxInterval}
RandomActionDelaysSecs == {RandomActionMinInterval, RandomActionMaxInterval}

\* AnimationStateMachine::AnimationStateMachine()
AnimationStateMachine0 ==
    [behaviorState |-> "IDLE_BASE",
     lastBlinkTime |-> 0,
     nextBlinkDelay |-> 0,
     lastRandomActionTime |-> 0,
     nextRandomActionDelay |-> 0,
     currentReaction |-> "IDLE",
     reactionLooping |-> FALSE,
     autoBlinkEnabled |-> TRUE,
     randomActionsEnabled |-> TRUE]

\* stopForcedLoop(): clears _forceLoop, a flag advanceFrame() does not read
stopForcedLoop(e) == [e EXCEPT !.forceLoop = FALSE]

\* init(), with the delays the two schedule calls draw
smInit(m, blinkDelay, actionDelay, t) ==
    [sm |-> [m.sm EXCEPT !.behaviorState = "IDLE_BASE",
                         !.nextBlinkDelay = blinkDelay,
                         !.nextRandomActionDelay = actionDelay],
     e |-> setPaused(play(m.e, "IDLE", FALSE, FALSE, t), TRUE, t)]

returnToBase(m, t) ==
    [sm |-> [m.sm EXCEPT !.behaviorState = "IDLE_BASE"],
     e |-> setPaused(play(m.e, "IDLE", FALSE, FALSE, t), TRUE, t)]

blinkDue(sm, t) ==
    sm.autoBlinkEnabled /\ t - sm.lastBlinkTime >= sm.nextBlinkDelay * 1000

randomActionDue(sm, t) ==
    /\ sm.randomActionsEnabled
    /\ t - sm.lastRandomActionTime >= sm.nextRandomActionDelay * 1000

\* updateIdleBase(); `chance` is random(100) < _randomActionChance
updateIdleBase(m, blinkDelay, actionDelay, chance, t) ==
    IF blinkDue(m.sm, t)
    THEN [sm |-> [m.sm EXCEPT !.behaviorState = "BLINKING",
                              !.lastBlinkTime = t,
                              !.nextBlinkDelay = blinkDelay],
          e |-> setPaused(play(m.e, "IDLE", FALSE, FALSE, t), FALSE, t)]
    ELSE IF randomActionDue(m.sm, t)
    THEN [sm |-> [m.sm EXCEPT !.behaviorState =
                                  IF chance THEN "RANDOM_ACTION" ELSE @,
                              !.lastRandomActionTime = t,
                              !.nextRandomActionDelay = actionDelay],
          e |-> IF chance THEN play(m.e, "WINK", FALSE, FALSE, t) ELSE m.e]
    ELSE m

\* updateBlinking() and updateRandomAction() have the same body
updateBlinking(m, t) == IF ~isPlaying(m.e) THEN returnToBase(m, t) ELSE m

updateReacting(m, t) ==
    IF ~m.sm.reactionLooping /\ ~isPlaying(m.e) THEN returnToBase(m, t) ELSE m

\* update()
smUpdate(m, blinkDelay, actionDelay, chance, t) ==
    CASE m.sm.behaviorState = "IDLE_BASE" ->
             updateIdleBase(m, blinkDelay, actionDelay, chance, t)
      [] m.sm.behaviorState \in {"BLINKING", "RANDOM_ACTION"} -> updateBlinking(m, t)
      [] m.sm.behaviorState = "REACTING" -> updateReacting(m, t)
      [] OTHER -> returnToBase(m, t)

triggerReaction(m, state, loop, t) ==
    IF /\ m.sm.behaviorState = "REACTING" /\ m.sm.currentReaction = state
       /\ m.sm.reactionLooping /\ loop
    THEN m
    ELSE [sm |-> [m.sm EXCEPT !.currentReaction = state,
                              !.reactionLooping = loop,
                              !.behaviorState = "REACTING"],
          e |-> play(m.e, state, TRUE, loop, t)]

stopReactionProceeds(sm) == sm.behaviorState = "REACTING" /\ sm.reactionLooping

stopReaction(m) ==
    IF stopReactionProceeds(m.sm)
    THEN [sm |-> [m.sm EXCEPT !.reactionLooping = FALSE],
          e |-> stopForcedLoop(m.e)]
    ELSE m

\* --- the state machine and its engine, their methods called by a loop
machine == [sm |-> behaviour, e |-> animator]

InitBehaviourAtRest ==
    /\ behaviour = AnimationStateMachine0
    /\ hBeh = FALSE

\* animator.init(); stateMachine.init()
InitBehaviour ==
    \E blinkDelay \in BlinkDelaysSecs, actionDelay \in RandomActionDelaysSecs :
        LET m == smInit([sm |-> AnimationStateMachine0,
                         e |-> animatorInit(AnimationEngine0, SetupMs)],
                        blinkDelay, actionDelay, SetupMs)
        IN  /\ behaviour = m.sm
            /\ animator = m.e
            /\ aticks = 0
            /\ hRun = NoRun
            /\ hBeh = FALSE

behaviourRest == <<weatherRest, aticks, hRun, loopVars, menuVars, button, encoder,
                   hIn, wifiMgr, prefs, hWifi, displayVars, hLink, pomodoro,
                   parent>>

\* stateMachine.update()
BehUpdate(blinkDelay, actionDelay, chance) ==
    LET m == smUpdate(machine, blinkDelay, actionDelay, chance, nowMs)
    IN  /\ behaviour' = m.sm
        /\ animator' = m.e
        /\ hBeh' = (hBeh /\ m.sm.behaviorState = "REACTING")
        /\ UNCHANGED <<nowMs, behaviourRest>>

\* animator.update()
BehAnimate ==
    /\ animator' = animatorUpdate(animator, nowMs)
    /\ UNCHANGED <<nowMs, behaviour, hBeh, behaviourRest>>

BehTriggerReaction(state, loop) ==
    LET m == triggerReaction(machine, state, loop, nowMs)
    IN  /\ behaviour' = m.sm
        /\ animator' = m.e
        /\ hBeh' = (hBeh /\ m = machine)
        /\ UNCHANGED <<nowMs, behaviourRest>>

BehStopReaction ==
    LET m == stopReaction(machine)
    IN  /\ behaviour' = m.sm
        /\ animator' = m.e
        /\ hBeh' = (hBeh \/ stopReactionProceeds(behaviour))
        /\ UNCHANGED <<nowMs, behaviourRest>>

\* millis() advances by one frame delay.  The methods compare differences of
\* millis() and a stored time only, so the advance is written as every stored
\* time moving back by as much, and no further back than the delay it is
\* compared with: the values stay in a finite range however long the loop runs
movedBack(stored, d, delay) ==
    IF nowMs - (stored - d) >= delay THEN nowMs - delay ELSE stored - d

BehTick ==
    /\ animator' = [animator EXCEPT
                        !.lastFrameTime = movedBack(@, FrameDelayMs, FrameDelayMs)]
    /\ behaviour' = [behaviour EXCEPT
           !.lastBlinkTime =
               movedBack(@, FrameDelayMs, behaviour.nextBlinkDelay * 1000),
           !.lastRandomActionTime =
               movedBack(@, FrameDelayMs, behaviour.nextRandomActionDelay * 1000)]
    /\ UNCHANGED <<nowMs, hBeh, behaviourRest>>


\* ------------------------------------------------------------------------
\* MenuItem and MenuSystem
\* ------------------------------------------------------------------------
\* the tree setupMenu() builds with addChild()
getChildren(item) ==
    CASE item = "mainMenu" ->
           <<"clockItem", "pomodoroItem", "animationsMenu", "sensorsMenu",
             "settingsMenu", "test1Menu", "test2Menu", "test3Menu", "test4Menu">>
      [] item = "animationsMenu" ->
           <<"idleAnimItem", "winkAnimItem", "dizzyAnimItem">>
      [] item = "sensorsMenu" -> <<"tempHumidItem", "soundLevelItem">>
      [] item = "settingsMenu" ->
           <<"brightnessItem", "soundItem", "sensitivityItem",
             "wifiMenu", "weatherMenu", "systemMenu">>
      [] item = "wifiMenu" ->
           <<"wifiConfigureItem", "wifiStatusItem", "wifiForgetItem">>
      [] item = "weatherMenu" ->
           <<"weatherEnableItem", "weatherViewItem", "weatherPrivacyItem",
             "weatherAboutItem">>
      [] item = "systemMenu" -> <<"rerunSetupItem", "factoryResetItem">>
      [] OTHER -> << >>

Submenus ==
    {"mainMenu", "animationsMenu", "sensorsMenu", "settingsMenu",
     "wifiMenu", "weatherMenu", "systemMenu"}

getChildCount(item) == Len(getChildren(item))
hasChildren(item) == getChildCount(item) > 0

\* the menu whose addChild() was given the item
parentOf(item) ==
    CHOOSE p \in Submenus : \E i \in 1..getChildCount(p) : getChildren(p)[i] = item

\* --- MenuItem: the items built with the value constructor
ValueItems == {"brightnessItem", "soundItem", "sensitivityItem", "weatherEnableItem"}

MenuItem(initialValue, minValue, maxValue) ==
    [type |-> "VALUE", value |-> initialValue,
     minValue |-> minValue, maxValue |-> maxValue]

setType(it, type) == [it EXCEPT !.type = type]

constrain(x, lo, hi) == IF x < lo THEN lo ELSE IF x > hi THEN hi ELSE x

incrementValueUnclamped(it) ==
    IF it.type = "TOGGLE"
    THEN [it EXCEPT !.value = 1]
    ELSE [it EXCEPT !.value = it.value + 1]

incrementValue(it) ==
    IF it.type = "TOGGLE"
    THEN [it EXCEPT !.value = 1]
    ELSE [it EXCEPT !.value =
              IF it.value + 1 > it.maxValue THEN it.maxValue ELSE it.value + 1]

decrementValue(it) ==
    IF it.type = "TOGGLE"
    THEN [it EXCEPT !.value = 0]
    ELSE [it EXCEPT !.value =
              IF it.value - 1 < it.minValue THEN it.minValue ELSE it.value - 1]

setValue(it, value) ==
    IF it.type = "TOGGLE"
    THEN [it EXCEPT !.value = IF value # 0 THEN 1 ELSE 0]
    ELSE [it EXCEPT !.value = constrain(value, it.minValue, it.maxValue)]

toggle(it) ==
    IF it.type # "TOGGLE"
    THEN it
    ELSE [it EXCEPT !.value = IF it.value = 0 THEN 1 ELSE 0]

\* --- MenuSystem
TITLE_HEIGHT == 10
ITEM_HEIGHT == 12
DISPLAY_HEIGHT == 64
MAX_MENU_DEPTH == 10

\* init(rootItem); entries of _menuStack at and above _depth are never read
\* before enterSubmenu() writes them again, and are left out
menuInit(rootItem) ==
    [currentMenu |-> rootItem, depth |-> 0, menuStack |-> << >>,
     selectedIndex |-> 0, scrollOffset |-> 0,
     maxVisibleItems |-> (DISPLAY_HEIGHT - TITLE_HEIGHT) \div ITEM_HEIGHT]

isAtRoot(m) == m.depth = 0
getCurrentMenuItemCount(m) == getChildCount(m.currentMenu)

getCurrentItem(m) ==
    IF m.selectedIndex < getCurrentMenuItemCount(m)
    THEN getChildren(m.currentMenu)[m.selectedIndex + 1]
    ELSE "null"

updateScrollOffsetLate(m) ==
    IF m.selectedIndex < m.scrollOffset
    THEN [m EXCEPT !.scrollOffset = m.selectedIndex]
    ELSE IF m.selectedIndex > m.scrollOffset + m.maxVisibleItems
         THEN [m EXCEPT !.scrollOffset = m.selectedIndex - m.maxVisibleItems + 1]
         ELSE m

updateScrollOffset(m) ==
    IF m.selectedIndex < m.scrollOffset
    THEN [m EXCEPT !.scrollOffset = m.selectedIndex]
    ELSE IF m.selectedIndex >= m.scrollOffset + m.maxVisibleItems
         THEN [m EXCEPT !.scrollOffset = m.selectedIndex - m.maxVisibleItems + 1]
         ELSE m

enterSubmenu(m) ==
    LET selected == getCurrentItem(m)
    IN  IF selected # "null" /\ hasChildren(selected)
        THEN [m EXCEPT
                 !.menuStack = IF m.depth < MAX_MENU_DEPTH
                               THEN Append(@, m.currentMenu) ELSE @,
                 !.depth = IF m.depth < MAX_MENU_DEPTH THEN @ + 1 ELSE @,
                 !.currentMenu = selected,
                 !.selectedIndex = 0,
                 !.scrollOffset = 0]
        ELSE m

exitSubmenuKeepsSelection(m) ==
    IF m.depth > 0
    THEN [m EXCEPT !.depth = @ - 1,
                   !.currentMenu = m.menuStack[m.depth],
                   !.menuStack = SubSeq(@, 1, m.depth - 1)]
    ELSE m

exitSubmenu(m) ==
    IF m.depth > 0
    THEN [m EXCEPT !.depth = @ - 1,
                   !.currentMenu = m.menuStack[m.depth],
                   !.menuStack = SubSeq(@, 1, m.depth - 1),
                   !.selectedIndex = 0,
                   !.scrollOffset = 0]
    ELSE m

\* executeCurrentItem(), the part that acts on the menu system: every item is
\* enabled (setEnabled() is never called on one)
executeCurrentItem(m) ==
    LET selected == getCurrentItem(m)
    IN  IF selected = "null" THEN m
        ELSE IF hasChildren(selected) THEN enterSubmenu(m) ELSE m

\* executeCurrentItem(), the part that acts on the selected item: execute()
\* toggles a Toggle item; no item of main.cpp has an action callback
executeItems(m, its) ==
    LET selected == getCurrentItem(m)
    IN  IF selected \in ValueItems /\ ~hasChildren(selected)
        THEN [its EXCEPT ![selected] = IF @.type = "TOGGLE" THEN toggle(@) ELSE @]
        ELSE its

MenuNav == {"UP", "DOWN", "SELECT", "BACK"}

\* navigate(direction) up to the state callback
navigate(m, direction) ==
    LET itemCount == getCurrentMenuItemCount(m)
    IN  IF itemCount = 0 THEN m
        ELSE CASE direction = "UP" ->
                    IF m.selectedIndex > 0
                    THEN updateScrollOffset([m EXCEPT !.selectedIndex = @ - 1])
                    ELSE m
               [] direction = "DOWN" ->
                    IF m.selectedIndex < itemCount - 1
                    THEN updateScrollOffset([m EXCEPT !.selectedIndex = @ + 1])
                    ELSE m
               [] direction = "SELECT" -> executeCurrentItem(m)
               [] direction = "BACK" -> exitSubmenu(m)

\* the item navigate(direction) hands to the state callback
navigateCallbackItem(m, direction) ==
    IF getCurrentMenuItemCount(m) = 0 THEN "none"
    ELSE getCurrentItem(navigate(m, direction))

\* setupMenu(): the value constructors, setType() and setValue(settings...)
itemsSetup(weatherEnabled) ==
    [it \in ValueItems |->
        CASE it = "brightnessItem" ->
               setValue(setType(MenuItem(100, 10, 100), "VALUE"),
                        (constrain(100, 10, 100) \div 10) * 10)
          [] it = "soundItem" ->
               setValue(setType(MenuItem(1, 0, 1), "TOGGLE"), 1)
          [] it = "sensitivityItem" ->
               setValue(setType(MenuItem(5, 1, 10), "VALUE"), 5)
          [] it = "weatherEnableItem" ->
               setValue(setType(MenuItem(1, 0, 1), "TOGGLE"),
                        IF weatherEnabled THEN 1 ELSE 0)]

\* the history of navigate(): a BACK and the menu before it
NoNav == [op |-> "none", before |-> menuInit("mainMenu")]
navigated(direction, m) ==
    IF direction = "BACK" THEN [op |-> "BACK", before |-> m] ELSE NoNav

InitMenu ==
    /\ menuSystem = menuInit("mainMenu")
    /\ items = itemsSetup(enabled_)
    /\ encoderEditMode = FALSE
    /\ hNav = NoNav

\* onEncoderEvent() in edit mode on a Value or Toggle item: the new value of
\* the item (main.cpp asks setValue() only for a value that differs)
encoderEditValue(item, it, cw) ==
    LET step0 == IF cw THEN 1 ELSE -1
        brightness == item = "brightnessItem"
        currentValue == IF brightness THEN (it.value \div 10) * 10 ELSE it.value
        step == IF brightness THEN step0 * 10 ELSE step0
        newValue == constrain(currentValue + step, it.minValue, it.maxValue)
    IN  IF newValue # currentValue THEN setValue(it, newValue) ELSE it

\* --- the menu system and the items, their methods called one at a time
MenuNavigate(direction) ==
    /\ menuSystem' = navigate(menuSystem, direction)
    /\ items' = IF direction = "SELECT" /\ getCurrentMenuItemCount(menuSystem) > 0
                THEN executeItems(menuSystem, items) ELSE items
    /\ hNav' = navigated(direction, menuSystem)
    /\ UNCHANGED encoderEditMode

MenuReInit ==
    /\ menuSystem' = menuInit("mainMenu")
    /\ hNav' = NoNav
    /\ UNCHANGED <<items, encoderEditMode>>

ItemIncrementValue(item) ==
    /\ items' = [items EXCEPT ![item] = incrementValue(@)]
    /\ UNCHANGED <<menuSystem, encoderEditMode, hNav>>

ItemDecrementValue(item) ==
    /\ items' = [items EXCEPT ![item] = decrementValue(@)]
    /\ UNCHANGED <<menuSystem, encoderEditMode, hNav>>

ItemSetValue(item, value) ==
    /\ items' = [items EXCEPT ![item] = setValue(@, value)]
    /\ UNCHANGED <<menuSystem, encoderEditMode, hNav>>

ItemToggle(item) ==
    /\ items' = [items EXCEPT ![item] = toggle(@)]
    /\ UNCHANGED <<menuSystem, encoderEditMode, hNav>>

\* onEncoderEvent() in edit mode, with the item under the selection
ItemEncoderEdit(item, cw) ==
    /\ items' = [items EXCEPT ![item] = encoderEditValue(item, @, cw)]
    /\ UNCHANGED <<menuSystem, encoderEditMode, hNav>>

\* onButtonEvent(CLICK) in the menu on a Value or Toggle item
ClickValueItem ==
    /\ getCurrentItem(menuSystem) \in ValueItems
    /\ encoderEditMode' = ~encoderEditMode
    /\ UNCHANGED <<menuSystem, items, hNav>>

\* onEncoderEvent() in the menu
EncoderRotate(cw) ==
    LET currentItem == getCurrentItem(menuSystem)
    IN  IF encoderEditMode /\ currentItem \in ValueItems
        THEN /\ items' = [items EXCEPT
                             ![currentItem] = encoderEditValue(currentItem, @, cw)]
             /\ UNCHANGED <<menuSystem, encoderEditMode, hNav>>
        ELSE /\ menuSystem' = navigate(menuSystem, IF cw THEN "DOWN" ELSE "UP")
             /\ encoderEditMode' = FALSE
             /\ hNav' = navigated(IF cw THEN "DOWN" ELSE "UP", menuSystem)
             /\ UNCHANGED items

\* the values callers pass to setValue(): in range, at the ends, and outside
SetValueArgs == {-1, 0, 55, 101}

\* ------------------------------------------------------------------------
\* MenuItem::addChild() and the array of children
\* ------------------------------------------------------------------------
MAX_CHILDREN == 10
ChildStep == 5
\* nullptr: no array
Null == << >>
Unset == "unset"

\* MenuItem(text, callback): no array yet.  `children` is Null or the array
\* (1-based here, Unset where nothing was stored), `beyond` counts the stores
\* that landed past the end of the array, and `heap` is what such a store
\* found there
MenuItem0 ==
    [type |-> "ACTION", children |-> Null, childCount |-> 0, childCapacity |-> 0,
     beyond |-> 0, heap |-> "intact"]

initChildren(i) ==
    [i EXCEPT !.childCapacity = ChildStep,
              !.children = [k \in 1..ChildStep |-> Unset],
              !.childCount = 0]

expandChildren(i) ==
    LET newCapacity == (i.childCapacity + ChildStep) % 256
    IN  IF newCapacity > MAX_CHILDREN THEN i
        ELSE [i EXCEPT !.children = [k \in 1..newCapacity |->
                                        IF k <= i.childCount THEN i.children[k]
                                        ELSE Unset],
                       !.childCapacity = newCapacity]

\* _children[_childCount++] = item: a store at an index that is not below the
\* capacity is outside the array, and what it overwrites there (`found`) is
\* not the program's to choose
addChild(i, item, found) ==
    LET a == IF i.children = Null THEN initChildren(i) ELSE i
        b == IF a.childCount >= a.childCapacity THEN expandChildren(a) ELSE a
        stored == IF b.childCount < b.childCapacity
                  THEN [b EXCEPT !.children[b.childCount + 1] = item]
                  ELSE [b EXCEPT !.beyond = @ + 1,
                                 !.heap = IF found = "padding" THEN @ ELSE "clobbered"]
    IN  [stored EXCEPT !.childCount = (@ + 1) % 256, !.type = "SUBMENU"]

allButParent == <<weatherVars, engineVars, loopVars, menuVars, button, encoder, hIn, wifiMgr, prefs, hWifi, displayVars, behaviourVars, hLink, pomodoro>>

AddChild(item, found) ==
    /\ parent' = addChild(parent, item, found)
    /\ UNCHANGED allButParent

\* ------------------------------------------------------------------------
\* main.cpp: the Pomodoro timer
\* ------------------------------------------------------------------------
\* A uint32_t is kept as the integer of least magnitude congruent to it
\* modulo 2^32: a value of 2^31 or more is the negative integer 2^32 below it.
\* Sums and differences of such integers then need no reduction while the
\* clock stays far below 2^31, and the unsigned order is:
u32Less(a, b) == IF (a < 0) = (b < 0) THEN a < b ELSE b < 0

POMODORO_WORK_MS == 1500000
POMODORO_BREAK_MS == 300000
PomodoroViewPeriodMs == 100

Pomodoro0 ==
    [state |-> "IDLE", targetMs |-> 0, pausedRemaining |-> 0, count |-> 0,
     lastUpdate |-> 0]

\* onButtonEvent(CLICK) in the Pomodoro view, at millis() = t
pomodoroClick(p, t) ==
    CASE p.state = "IDLE" ->
           [p EXCEPT !.state = "WORK_RUNNING", !.targetMs = t + POMODORO_WORK_MS]
      [] p.state = "WORK_RUNNING" ->
           [p EXCEPT !.pausedRemaining = p.targetMs - t, !.state = "WORK_PAUSED"]
      [] p.state = "WORK_PAUSED" ->
           [p EXCEPT !.targetMs = t + p.pausedRemaining, !.state = "WORK_RUNNING"]
      [] p.state = "BREAK_RUNNING" ->
           [p EXCEPT !.pausedRemaining = p.targetMs - t, !.state = "BREAK_PAUSED"]
      [] p.state = "BREAK_PAUSED" ->
           [p EXCEPT !.targetMs = t + p.pausedRemaining, !.state = "BREAK_RUNNING"]

\* onButtonEvent(LONG_PRESS) in the Pomodoro view
pomodoroReset(p) ==
    [p EXCEPT !.state = "IDLE", !.targetMs = 0, !.pausedRemaining = 0, !.count = 0]

\* the time the view shows for a running session
pomodoroRemaining(p, t) == IF u32Less(t, p.targetMs) THEN p.targetMs - t ELSE 0

updatePomodoroViewMode(p, t) ==
    IF u32Less(t - p.lastUpdate, PomodoroViewPeriodMs) THEN p
    ELSE LET q == [p EXCEPT !.lastUpdate = t]
         IN  IF p.state \in {"WORK_RUNNING", "BREAK_RUNNING"} /\ pomodoroRemaining(p, t) = 0
             THEN IF p.state = "WORK_RUNNING"
                  THEN [q EXCEPT !.count = (@ + 1) % 256,
                                 !.state = "BREAK_RUNNING",
                                 !.targetMs = t + POMODORO_BREAK_MS]
                  ELSE [q EXCEPT !.state = "WORK_RUNNING",
                                 !.targetMs = t + POMODORO_WORK_MS]
             ELSE q

\* ------------------------------------------------------------------------
\* DisplayManager, and the time without input
\* ------------------------------------------------------------------------
SLEEP_TIMEOUT_MS == 300000

\* DisplayManager::init(): begin() turns the panel on.  setPower() is the one
\* method that switches it (fadeIn() and fadeOut() call it), and main.cpp
\* calls none of the three
DisplayManager0 == [power |-> TRUE]

\* no input event yet: the time without input counts from the start
NoActivity == [last |-> 0, events |-> 0]

\* an input event (button, rotation, shake) arrives at time t
activityAt(h, t) == [last |-> t, events |-> h.events + 1]

InitDisplayAtRest ==
    /\ display = DisplayManager0
    /\ hActivity = NoActivity

InitAppAtRest ==
    /\ InitDisplayAtRest
    /\ InitBehaviourAtRest
    /\ hLink = "up"
    /\ pomodoro = Pomodoro0
    /\ parent = MenuItem0

\* ------------------------------------------------------------------------
\* WiFiManager, the captive portal's handleConnect and onWiFiEvent
\* ------------------------------------------------------------------------
WIFI_CONNECT_TIMEOUT == 30000
WIFI_RECONNECT_DELAY == 30000
WIFI_MAX_RETRIES == 3
DEFAULT_AP_AUTO_SHUTDOWN_MS == 900000
\* update() runs its body at most once per interval
WifiUpdateIntervalMs == 100
\* the delay between saveCredentials() and the connection attempt
PendingConnectionMs == 2000
\* validateCredentials() and the buffers of handleConnect()
MaxSsidLen == 32
MinPasswordLen == 8
MaxPasswordLen == 63

\* the time an access point takes to accept credentials that are right
JoinMs == 500
\* the time between two iterations of loop(): whole connection timeouts or
\* the whole life of the access point, and a few times the interval of
\* update(), less than it, or the delay of the pending connection
TimeoutStepMs == 32000
WifiStepsMs == {TimeoutStepMs, DEFAULT_AP_AUTO_SHUTDOWN_MS}
WifiShortStepsMs == {50, WifiUpdateIntervalMs, PendingConnectionMs}
MaxShortSteps == 1
\* what the user does: submissions to the portal, actions of the WiFi menu
\* and restarts
MaxUserActions == 2

\* Credentials: the lengths of the two strings, and whether the network they
\* name accepts them. NoCredentials is WiFiConfig after memset().
NoCredentials == [ssidLen |-> 0, passLen |-> 0, accepted |-> FALSE]
\* what a client posts: no name, a password too short, credentials the
\* network accepts, a wrong password, and a name longer than the buffer
PortalInputs ==
    { [ssidLen |-> 0, passLen |-> 12, accepted |-> FALSE],
      [ssidLen |-> 8, passLen |-> MinPasswordLen - 1, accepted |-> FALSE],
      [ssidLen |-> 8, passLen |-> 12, accepted |-> TRUE],
      [ssidLen |-> 8, passLen |-> 12, accepted |-> FALSE],
      [ssidLen |-> MaxSsidLen + 1, passLen |-> 0, accepted |-> TRUE] }

\* the namespaces "wifi" and "config" of the flash. Nothing in the firmware
\* stores setup_ok = true or wifi_en = false (saveDeviceConfig() has no
\* caller), so the device configuration read at boot is the default one.
NoPrefs == [configured |-> FALSE, cred |-> NoCredentials]
DefaultDeviceConfig == [setupComplete |-> FALSE, wifiEnabled |-> TRUE]

\* Times are kept as the time passed since the field was set, up to the
\* least value that decides every comparison the code makes with it.
aged(since, d, cap) == IF since + d > cap THEN cap ELSE since + d

\* WiFiManager after its constructor, at SetupMs of uptime. radioMode,
\* sinceBegin and radioAccepts are the WiFi driver: its mode, the time since
\* WiFi.begin() and whether the network accepts what begin() was given;
\* inRange says that the network is there to be joined.
\* `fired` lists the events passed to the callback by the current call and
\* `failed` says that the current call set the state to FAILED.
WiFiManager0 ==
    [ state |-> "IDLE", config |-> NoPrefs, retryCount |-> 0,
      deviceConfig |-> DefaultDeviceConfig, callbackSet |-> FALSE,
      webServerActive |-> FALSE, pendingConnection |-> FALSE,
      sinceUpdate |-> WifiUpdateIntervalMs,
      sincePending |-> SetupMs,
      sinceAttempt |-> SetupMs,
      apStarted |-> FALSE, sinceApStart |-> 0, apAutoShutdownMs |-> 0,
      radioMode |-> "OFF", sinceBegin |-> 0, radioAccepts |-> FALSE,
      inRange |-> TRUE,
      fired |-> <<>>, failed |-> FALSE ]

triggerEvent(m, event) ==
    IF m.callbackSet THEN [m EXCEPT !.fired = Append(@, event)] ELSE m

startCaptivePortal(m) ==
    triggerEvent([m EXCEPT !.radioMode = "AP", !.radioAccepts = FALSE,
                           !.apStarted = TRUE, !.sinceApStart = 0,
                           !.webServerActive = TRUE, !.state = "AP_MODE"],
                 "AP_STARTED")

hasSsid(m) == m.config.configured /\ m.config.cred.ssidLen > 0

\* WiFi.begin(_config.ssid, _config.password) will succeed
beginAccepted(m) == m.config.cred.accepted /\ m.inRange

connect(m) ==
    IF ~hasSsid(m)
    THEN [m EXCEPT !.state = "FAILED", !.failed = TRUE]
    ELSE [m EXCEPT !.radioMode = "STA", !.sinceBegin = 0,
                   !.radioAccepts = beginAccepted(m),
                   !.state = "CONNECTING", !.sinceAttempt = 0]

disconnect(m) ==
    [m EXCEPT !.radioMode = "OFF", !.radioAccepts = FALSE,
              !.state = "DISCONNECTED"]

\* WiFi.status() == WL_CONNECTED
statusConnectedNever(m) == FALSE
statusConnected(m) ==
    m.radioMode = "STA" /\ m.radioAccepts /\ m.sinceBegin >= JoinMs

freeWebServerMemory(m) == [m EXCEPT !.webServerActive = FALSE]

retriesLeft(count) == count < WIFI_MAX_RETRIES

handleConnectionState(m) ==
    IF statusConnected(m)
    THEN freeWebServerMemory(
             triggerEvent([m EXCEPT !.state = "CONNECTED", !.retryCount = 0],
                          "CONNECTED"))
    ELSE IF m.sinceAttempt > WIFI_CONNECT_TIMEOUT
    THEN IF ~retriesLeft(m.retryCount + 1)
         THEN startCaptivePortal(
                  triggerEvent([m EXCEPT !.retryCount = @ + 1,
                                         !.state = "FAILED",
                                         !.failed = TRUE], "FAILED"))
         ELSE [m EXCEPT !.retryCount = @ + 1, !.sinceAttempt = 0,
                        !.sinceBegin = 0, !.radioAccepts = beginAccepted(m)]
    ELSE m

handleAPMode(m) ==
    IF /\ m.apAutoShutdownMs > 0 /\ m.apStarted
       /\ m.sinceApStart >= m.apAutoShutdownMs
    THEN [triggerEvent([freeWebServerMemory(m) EXCEPT !.radioMode = "STA",
                                                      !.state = "IDLE"],
                       "DISCONNECTED") EXCEPT !.apStarted = FALSE]
    ELSE m

\* WiFiManager::update()
wifiUpdate(m) ==
    IF m.sinceUpdate < WifiUpdateIntervalMs THEN m
    ELSE LET m1 == [m EXCEPT !.sinceUpdate = 0]
         IN  IF m1.pendingConnection /\ m1.sincePending >= PendingConnectionMs
             THEN connect([m1 EXCEPT !.pendingConnection = FALSE])
             ELSE CASE m1.state = "AP_MODE" -> handleAPMode(m1)
                    [] m1.state = "CONNECTING" -> handleConnectionState(m1)
                    [] m1.state = "CONNECTED" ->
                          IF ~statusConnected(m1)
                          THEN triggerEvent([m1 EXCEPT !.state = "DISCONNECTED"],
                                            "DISCONNECTED")
                          ELSE m1
                    [] m1.state = "DISCONNECTED" ->
                          IF m1.sinceAttempt > WIFI_RECONNECT_DELAY
                          THEN connect(m1)
                          ELSE m1
                    [] OTHER -> m1

validateCredentials(c) ==
    /\ ~(c.ssidLen = 0 \/ c.ssidLen > MaxSsidLen)
    /\ ~(c.passLen > 0 /\ c.passLen < MinPasswordLen)
    /\ ~(c.passLen > MaxPasswordLen)

\* saveCredentials(): `stale` is the data race with update() of the loop
\* task, which may read _pendingConnection between its write and the write
\* of _pendingConnectionTime and then sees the time of the previous save
saveCredentials(m, c, stale) ==
    IF ~validateCredentials(c) THEN m
    ELSE triggerEvent([m EXCEPT !.config = [configured |-> TRUE, cred |-> c],
                                !.retryCount = 0,
                                !.pendingConnection = TRUE,
                                !.sincePending = IF stale THEN @ ELSE 0],
                      "CREDENTIALS_SAVED")

\* the strings handleConnect() passes on: cut to the size of its buffers; a
\* network does not accept a name or a password that was cut
truncated(c) ==
    [ ssidLen |-> IF c.ssidLen > MaxSsidLen THEN MaxSsidLen ELSE c.ssidLen,
      passLen |-> IF c.passLen > MaxPasswordLen THEN MaxPasswordLen ELSE c.passLen,
      accepted |-> /\ c.accepted
                   /\ c.ssidLen <= MaxSsidLen /\ c.passLen <= MaxPasswordLen ]

\* WebInterface::handleConnect() with a body that parses
handleConnect(m, c, stale) ==
    IF truncated(c).ssidLen = 0 THEN m
    ELSE saveCredentials(m, truncated(c), stale)

\* storeCredentials() has run
stored(c) == truncated(c).ssidLen > 0 /\ validateCredentials(truncated(c))

clearCredentials(m) ==
    disconnect([m EXCEPT !.config = NoPrefs, !.retryCount = 0])

\* WiFiManager::init() with the flash holding p
wifiInit(m, p) ==
    LET m1 == [m EXCEPT !.config = p,
                        !.apAutoShutdownMs = DEFAULT_AP_AUTO_SHUTDOWN_MS]
    IN  IF ~m1.deviceConfig.setupComplete THEN startCaptivePortal(m1)
        ELSE IF m1.deviceConfig.wifiEnabled /\ hasSsid(m1) THEN connect(m1)
        ELSE IF ~m1.deviceConfig.wifiEnabled THEN [m1 EXCEPT !.state = "IDLE"]
        ELSE startCaptivePortal(m1)

\* onWiFiEvent(), applied to the events of one call in their order
RECURSIVE onWiFiEvents(_, _)
onWiFiEvents(mode, events) ==
    IF events = <<>> THEN mode
    ELSE LET event == Head(events)
             next == IF event = "AP_STARTED" THEN "WIFI_SETUP"
                     ELSE IF event = "CONNECTED" /\ mode = "WIFI_SETUP"
                     THEN "ANIMATIONS"
                     ELSE mode
         IN  onWiFiEvents(next, Tail(events))

\* the mode setup() leaves: wifi.init() runs before setEventCallback()
setupShowsWizardNever(m) == FALSE
setupShowsWizard(m) == ~m.deviceConfig.setupComplete

\* history of the WiFi manager
NoWifi ==
    [ last |-> "boot",        \* the last operation
      boots |-> 0,            \* restarts so far
      actions |-> 0,          \* what the user did so far
      shortSteps |-> 0,
      submitted |-> FALSE,    \* credentials that validate and that the
                              \* network accepts went through the portal,
                              \* and nothing but update() ran since
      connecting |-> FALSE ]  \* the state was CONNECTING since then

\* setup() of main.cpp with the flash holding p
Boot(p) ==
    /\ prefs' = p
    /\ wifiMgr' = [wifiInit(WiFiManager0, p) EXCEPT !.callbackSet = TRUE]
    /\ currentMode' = IF setupShowsWizard(wifiMgr') THEN "WIFI_SETUP"
                      ELSE "ANIMATIONS"

InitWifi(p) ==
    /\ prefs = p
    /\ wifiMgr = [wifiInit(WiFiManager0, p) EXCEPT !.callbackSet = TRUE]
    /\ hWifi = NoWifi

\* the flash a boot can find: empty, or holding credentials an earlier
\* saveCredentials() stored
StoredPrefs ==
    {NoPrefs} \cup
    { [ configured |-> TRUE,
        cred |-> [ssidLen |-> 8, passLen |-> 12, accepted |-> a] ] :
        a \in BOOLEAN }

called(m) == [m EXCEPT !.fired = <<>>, !.failed = FALSE]

\* one iteration of loop(), d ms after the previous one: wifi.update()
WifiUpdate(d) ==
    /\ d \in WifiShortStepsMs => hWifi.shortSteps < MaxShortSteps
    /\ LET m == [called(wifiMgr) EXCEPT
                   !.sinceUpdate = aged(@, d, WifiUpdateIntervalMs),
                   !.sincePending = aged(@, d, PendingConnectionMs),
                   !.sinceAttempt = aged(@, d, WIFI_CONNECT_TIMEOUT + 1),
                   !.sinceApStart = aged(@, d, DEFAULT_AP_AUTO_SHUTDOWN_MS),
                   !.sinceBegin = aged(@, d, JoinMs)]
       IN  wifiMgr' = wifiUpdate(m)
    /\ currentMode' = onWiFiEvents(currentMode, wifiMgr'.fired)
    /\ hWifi' = [hWifi EXCEPT !.last = "update",
                              !.shortSteps =
                                  IF d \in WifiShortStepsMs THEN @ + 1 ELSE @,
                              !.connecting =
                                  \/ @
                                  \/ /\ hWifi.submitted
                                     /\ wifiMgr'.state = "CONNECTING"]
    /\ UNCHANGED prefs

\* a client of the access point posts credentials to the portal
PortalSubmit(c, stale) ==
    /\ hWifi.actions < MaxUserActions
    /\ wifiMgr.radioMode = "AP" /\ wifiMgr.webServerActive
    /\ wifiMgr' = handleConnect(called(wifiMgr), c, stale)
    /\ prefs' = IF stored(c) THEN wifiMgr'.config ELSE prefs
    /\ currentMode' = onWiFiEvents(currentMode, wifiMgr'.fired)
    /\ hWifi' = [hWifi EXCEPT !.last = "submit", !.actions = @ + 1,
                              !.submitted = stored(c) /\ truncated(c).accepted,
                              !.connecting = FALSE]

\* onMenuStateChange(): WIFI_CONFIGURE
MenuConfigure ==
    /\ hWifi.actions < MaxUserActions
    /\ wifiMgr' = startCaptivePortal(called(wifiMgr))
    /\ currentMode' = "WIFI_SETUP"
    /\ hWifi' = [hWifi EXCEPT !.last = "configure", !.actions = @ + 1,
                              !.submitted = FALSE, !.connecting = FALSE]
    /\ UNCHANGED prefs

\* onMenuStateChange(): WIFI_FORGET
MenuForget ==
    /\ hWifi.actions < MaxUserActions
    /\ wifiMgr' = disconnect(clearCredentials(called(wifiMgr)))
    /\ prefs' = NoPrefs
    /\ hWifi' = [hWifi EXCEPT !.last = "forget", !.actions = @ + 1,
                              !.submitted = FALSE, !.connecting = FALSE]
    /\ UNCHANGED currentMode

\* the access point drops the station
LinkLost ==
    /\ wifiMgr.state = "CONNECTED" /\ wifiMgr.radioAccepts
    /\ wifiMgr' = [called(wifiMgr) EXCEPT !.radioAccepts = FALSE]
    /\ hWifi' = [hWifi EXCEPT !.last = "lost"]
    /\ UNCHANGED <<prefs, currentMode>>

\* resetSetupWizard() and factoryReset() end in ESP.restart(): setup() runs
\* again, after factoryReset() with the flash cleared
Restart(factory) ==
    /\ hWifi.actions < MaxUserActions
    /\ Boot(IF factory THEN NoPrefs ELSE prefs)
    /\ hWifi' = [NoWifi EXCEPT !.boots = 1,
                               !.actions = hWifi.actions + 1,
                               !.shortSteps = hWifi.shortSteps]

\* the network goes away (the router is switched off, the device is carried
\* out of range) while the station is connected to it
NetworkDown ==
    /\ wifiMgr.state = "CONNECTED" /\ wifiMgr.radioAccepts /\ wifiMgr.inRange
    /\ wifiMgr' = [called(wifiMgr) EXCEPT !.inRange = FALSE,
                                          !.radioAccepts = FALSE]
    /\ hWifi' = [hWifi EXCEPT !.last = "lost"]
    /\ hLink' = "lost"
    /\ UNCHANGED <<prefs, currentMode>>

\* the network is there again; a WiFi.begin() that is still trying finds it
NetworkUp ==
    /\ ~wifiMgr.inRange
    /\ LET m == [called(wifiMgr) EXCEPT !.inRange = TRUE]
       IN  wifiMgr' = IF m.radioMode = "STA" /\ m.state = "CONNECTING"
                      THEN [m EXCEPT !.radioAccepts = beginAccepted(m),
                                     !.sinceBegin = 0]
                      ELSE m
    /\ hWifi' = [hWifi EXCEPT !.last = "back"]
    /\ hLink' = "back"
    /\ UNCHANGED <<prefs, currentMode>>

\* the manager as setup() leaves it on a device never configured
InitWifiAtRest == InitWifi(NoPrefs)

\* ------------------------------------------------------------------------
\* InputManager: Button, RotaryEncoder; MotionSensor: TouchSensor
\* ------------------------------------------------------------------------
\* Button's constructor
ButtonDebounceDelay == 50
ButtonLongPressThreshold == 1000
ButtonDoubleClickWindow == 300
\* TouchSensor's constructor
TouchDebounceDelay == 20
TouchLongTouchThreshold == 800
TouchDoubleTapWindow == 400
ENCODER_STEPS_PER_DETENT == 2
\* RotaryEncoder's constructor, and the cap of the acceleration factor
AccelerationThreshold == 50
MaxAccelerationFactor == 8

\* the time between two calls of update(): shorter than either debounce delay,
\* longer than both and shorter than either double-click window, longer than
\* both long-press thresholds
ShortMs == 10
MidMs == 60
LongMs == 1000
UpdateStepsMs == {ShortMs, MidMs, LongMs}
MaxUpdates == 8
MaxTurns == 7

\* A Button or a TouchSensor after its constructor and begin(), which reads
\* the pin. The two classes have the same fields and the same update(); the
\* events of the touch sensor are written with the names of the button's
\* (TOUCH = PRESSED, RELEASE = RELEASED, TAP = CLICK, DOUBLE_TAP =
\* DOUBLE_CLICK, LONG_TOUCH = LONG_PRESS). `fired` lists the calls of
\* triggerCallback() made by the last update().
Button(rawState) ==
    [ kind |-> "Button", lastState |-> rawState, debouncedState |-> rawState,
      lastEvent |-> "NONE", lastDebounceTime |-> 0, pressedTime |-> 0,
      releasedTime |-> 0, lastClickTime |-> 0,
      debounceDelay |-> ButtonDebounceDelay,
      longPressThreshold |-> ButtonLongPressThreshold,
      doubleClickWindow |-> ButtonDoubleClickWindow,
      pressedEdge |-> FALSE, releasedEdge |-> FALSE,
      longPressTriggered |-> FALSE, clickCount |-> 0, fired |-> <<>> ]

TouchSensor(rawState) ==
    [ Button(rawState) EXCEPT !.kind = "TouchSensor",
                              !.debounceDelay = TouchDebounceDelay,
                              !.longPressThreshold = TouchLongTouchThreshold,
                              !.doubleClickWindow = TouchDoubleTapWindow ]

triggerCallback(b, event) ==
    [b EXCEPT !.lastEvent = event, !.fired = Append(@, event)]

\* Button::detectEvents(), TouchSensor::detectEvents()
detectEvents(b, t) ==
    IF t - b.lastClickTime < b.doubleClickWindow /\ b.clickCount = 1
    THEN triggerCallback([b EXCEPT !.clickCount = 0], "DOUBLE_CLICK")
    ELSE triggerCallback([b EXCEPT !.clickCount = 1, !.lastClickTime = t],
                         "CLICK")

\* "State has stabilized"
stabilizedAlways(b, t) == TRUE
stabilized(b, t) == t - b.lastDebounceTime > b.debounceDelay

\* the debounced state follows the pin
debouncedChange(b, rawState, t) ==
    IF rawState
    THEN triggerCallback([b EXCEPT !.debouncedState = TRUE,
                                   !.pressedEdge = TRUE,
                                   !.pressedTime = t,
                                   !.longPressTriggered = FALSE], "PRESSED")
    ELSE LET r == triggerCallback([b EXCEPT !.debouncedState = FALSE,
                                            !.releasedEdge = TRUE,
                                            !.releasedTime = t], "RELEASED")
         IN  IF ~r.longPressTriggered THEN detectEvents(r, t) ELSE r

\* "Check for long press (while button is held)"
longPressCheck(b, t) ==
    IF /\ b.debouncedState /\ ~b.longPressTriggered
       /\ t - b.pressedTime >= b.longPressThreshold
    THEN triggerCallback([b EXCEPT !.longPressTriggered = TRUE], "LONG_PRESS")
    ELSE b

\* "Long press hold (continuous while held)": Button only, no callback
longPressHold(b) ==
    IF b.kind = "Button" /\ b.debouncedState /\ b.longPressTriggered
    THEN [b EXCEPT !.lastEvent = "LONG_PRESS_HOLD"]
    ELSE b

\* Button::update(), TouchSensor::update() of an enabled sensor, at time t
\* with the pin reading rawState
buttonUpdate(b, rawState, t) ==
    LET b1 == [b EXCEPT !.pressedEdge = FALSE, !.releasedEdge = FALSE,
                        !.lastEvent = "NONE", !.fired = <<>>,
                        !.lastDebounceTime =
                            IF rawState # b.lastState THEN t ELSE @]
        b2 == IF stabilized(b1, t) /\ rawState # b1.debouncedState
              THEN debouncedChange(b1, rawState, t)
              ELSE b1
    IN  [longPressHold(longPressCheck(b2, t)) EXCEPT !.lastState = rawState]

\* Button::getEvent()
getEvent(b) == b.lastEvent

\* RotaryEncoder after its constructor and begin(), which reads the two pins
RotaryEncoder(stepsPerDetent, encoded, enabled) ==
    [ stepsPerDetent |-> stepsPerDetent, position |-> 0, lastEncoded |-> encoded,
      direction |-> "NONE", lastEvent |-> "NONE", stepAccumulator |-> 0,
      accelerationEnabled |-> enabled,
      accelerationThreshold |-> AccelerationThreshold,
      lastRotationTime |-> 0, accelerationFactor |-> 1, fired |-> <<>> ]

\* readEncoder()'s STATE_TABLE[previous][current]
STATE_TABLE ==
    << <<0, 1, -1, 0>>, <<-1, 0, 0, 1>>, <<1, 0, 0, -1>>, <<0, -1, 1, 0>> >>

stateDirection(previous, current) == STATE_TABLE[previous + 1][current + 1]

\* integer division and remainder of C++, which truncate towards zero
truncDiv(a, b) == IF a >= 0 THEN a \div b ELSE -((-a) \div b)
truncRem(a, b) == a - b * truncDiv(a, b)

\* "Keep only the remainder for the next cycle"
remainderKeptAll(acc, steps) == acc
remainderKept(acc, steps) == truncRem(acc, steps)

encoderCallback(e, event) ==
    [e EXCEPT !.lastEvent = event, !.fired = Append(@, event)]

\* the accumulator has reached a detent: the position moves by one detent
\* times the step size
commitDetent(e, acc, t) ==
    LET whole == truncDiv(acc, e.stepsPerDetent)
        detents == IF whole > 0 THEN 1 ELSE IF whole < 0 THEN -1 ELSE 0
        fast == t - e.lastRotationTime < e.accelerationThreshold
        factor == IF ~e.accelerationEnabled THEN e.accelerationFactor
                  ELSE IF ~fast THEN 1
                  ELSE IF e.accelerationFactor + 1 < MaxAccelerationFactor
                       THEN e.accelerationFactor + 1
                       ELSE MaxAccelerationFactor
        stepSize == IF e.accelerationEnabled /\ fast THEN factor ELSE 1
        e1 == [e EXCEPT !.stepAccumulator = remainderKept(acc, e.stepsPerDetent),
                        !.accelerationFactor = factor,
                        !.lastRotationTime =
                            IF e.accelerationEnabled THEN t ELSE @,
                        !.position = @ + detents * stepSize]
    IN  IF detents > 0
        THEN encoderCallback([e1 EXCEPT !.direction = "CLOCKWISE"], "ROTATED_CW")
        ELSE IF detents < 0
        THEN encoderCallback([e1 EXCEPT !.direction = "COUNTER_CLOCKWISE"],
                             "ROTATED_CCW")
        ELSE e1

\* RotaryEncoder::readEncoder() at time t with the pins reading `encoded`
readEncoder(e, encoded, t) ==
    IF encoded = e.lastEncoded THEN e
    ELSE LET direction == stateDirection(e.lastEncoded, encoded)
             acc == e.stepAccumulator + direction
             e1 == [e EXCEPT !.lastEncoded = encoded]
         IN  IF direction = 0 THEN e1
             ELSE IF (IF acc < 0 THEN -acc ELSE acc) >= e.stepsPerDetent
             THEN commitDetent(e1, acc, t)
             ELSE [e1 EXCEPT !.stepAccumulator = acc]

\* the switch of RotaryEncoder::updateButton()
ForwardedEvents == {"PRESSED", "RELEASED", "CLICK", "DOUBLE_CLICK", "LONG_PRESS"}

encoderEventOf(btnEvent) ==
    CASE btnEvent = "PRESSED" -> "BUTTON_PRESSED"
      [] btnEvent = "RELEASED" -> "BUTTON_RELEASED"
      [] btnEvent = "CLICK" -> "BUTTON_CLICK"
      [] btnEvent = "DOUBLE_CLICK" -> "BUTTON_DOUBLE_CLICK"
      [] btnEvent = "LONG_PRESS" -> "BUTTON_LONG_PRESS"
      [] OTHER -> "NONE"

\* RotaryEncoder::updateButton(), after _button->update()
forwardButton(e, b) ==
    IF getEvent(b) \in ForwardedEvents
    THEN encoderCallback(e, encoderEventOf(getEvent(b)))
    ELSE e

\* history of the input classes
NoRelease == [at |-> -1, clicks |-> 0, doubles |-> 0]
NoInput ==
    [ updates |-> 0,          \* calls of update() so far
      changes |-> 0,          \* changes of the debounced state so far, up to 2
      changedAt |-> -1,       \* time of the last change of the debounced state
      changeGap |-> -1,       \* time between the last two changes
      bounces |-> 0,          \* changes of the pin that came within the
                              \* debounce delay of the previous one, up to 2
      release |-> NoRelease,  \* the last release of a short press: its time
                              \* and the Click and Double-Click events it fired
      pairGap |-> -1,         \* the last two releases of short presses, the
      pairClicks |-> 0,       \* first of which completed no double click: the
      pairDoubles |-> 0,      \* time between them and the events of the two
      transitions |-> 0,      \* valid quadrature transitions, clockwise minus
                              \* counter-clockwise
      detents |-> 0,          \* detents committed, clockwise minus counter-
      before |-> 0,           \* the position before the last update()
      committed |-> 0 ]       \* detents committed by the last update()

count(s, event) == Cardinality({i \in 1..Len(s) : s[i] = event})

\* the history after an update() of the button or the touch sensor
inputNoted(h, b, b1, rawState, t) ==
    LET changed == b1.debouncedState # b.debouncedState
        bounced == /\ rawState # b.lastState
                   /\ t - b.lastDebounceTime <= b.debounceDelay
        short == b1.releasedEdge /\ ~b1.longPressTriggered
        clicks == count(b1.fired, "CLICK")
        doubles == count(b1.fired, "DOUBLE_CLICK")
        paired == short /\ h.release.at >= 0 /\ h.release.doubles = 0
    IN  [h EXCEPT
           !.updates = @ + 1,
           !.changes = IF changed /\ @ < 2 THEN @ + 1 ELSE @,
           !.changedAt = IF changed THEN t ELSE @,
           !.changeGap = IF changed /\ h.changedAt >= 0
                         THEN t - h.changedAt ELSE @,
           !.bounces = IF bounced /\ @ < 2 THEN @ + 1 ELSE @,
           !.release = IF short
                       THEN [at |-> t, clicks |-> clicks, doubles |-> doubles]
                       ELSE IF b1.releasedEdge THEN NoRelease ELSE @,
           !.pairGap = IF paired THEN t - h.release.at
                       ELSE IF b1.releasedEdge THEN -1 ELSE @,
           !.pairClicks = IF paired THEN h.release.clicks + clicks ELSE @,
           !.pairDoubles = IF paired THEN h.release.doubles + doubles ELSE @]

\* the history after a readEncoder()
turnNoted(h, e, e1, encoded) ==
    LET d == IF e1.direction = "CLOCKWISE" THEN 1 ELSE -1
        n == count(e1.fired, "ROTATED_CW") + count(e1.fired, "ROTATED_CCW")
    IN  [h EXCEPT
           !.transitions = @ + stateDirection(e.lastEncoded, encoded),
           !.detents = @ + n * d,
           !.before = e.position,
           !.committed = n * d]

\* the states of the two pins
Encoded == 0..3

\* the encoder of main.cpp (InputManager::initWithEncoder), nothing touched
InitInputAtRest ==
    /\ button = Button(FALSE)
    /\ encoder = RotaryEncoder(ENCODER_STEPS_PER_DETENT, 3, FALSE)
    /\ hIn = NoInput
    /\ InitWifiAtRest
    /\ InitAppAtRest

\* RotaryEncoder::update(), d ms after the previous one: readEncoder(), then
\* updateButton() with its nested Button
EncoderUpdate(encoded, rawState, d) ==
    /\ button.kind = "Button"
    /\ nowMs' = nowMs + d
    /\ LET e0 == [encoder EXCEPT !.fired = <<>>]
           e1 == readEncoder(e0, encoded, nowMs')
           b1 == buttonUpdate(button, rawState, nowMs')
       IN  /\ button' = b1
           /\ encoder' = forwardButton(e1, b1)
           /\ hIn' = turnNoted(inputNoted(hIn, button, b1, rawState, nowMs'),
                               e0, e1, encoded)

\* TouchSensor::update(), d ms after the previous one
TouchUpdate(rawState, d) ==
    /\ button.kind = "TouchSensor"
    /\ nowMs' = nowMs + d
    /\ button' = buttonUpdate(button, rawState, nowMs')
    /\ hIn' = inputNoted(hIn, button, button', rawState, nowMs')
    /\ UNCHANGED encoder

\* the button and the touch sensor on their own: the pins of the encoder's
\* rotation do not move
InitButtonSpec ==
    /\ \E rawState \in BOOLEAN :
          button \in {Button(rawState), TouchSensor(rawState)}
    /\ encoder = RotaryEncoder(ENCODER_STEPS_PER_DETENT, 3, FALSE)
    /\ hIn = NoInput
    /\ InitWifiAtRest
    /\ InitAppAtRest

\* the rotation of the encoder on its own: the button is not touched
InitEncSpec ==
    /\ button = Button(FALSE)
    /\ \E steps \in {1, ENCODER_STEPS_PER_DETENT, 4}, enabled \in BOOLEAN,
          encoded \in Encoded :
          encoder = RotaryEncoder(steps, encoded, enabled)
    /\ hIn = NoInput
    /\ InitWifiAtRest
    /\ InitAppAtRest

\* ------------------------------------------------------------------------
\* main.cpp: loop(), the event handlers and the application modes
\* ------------------------------------------------------------------------
SHAKE_COOLDOWN == 1000
MENU_TIMEOUT_MS == 10000
LOOP_DELAY_MS == 10
\* MotionSensor: the shortest time between two SHAKE events
SHAKE_COOLDOWN_MS == 500
\* scheduleNextBlink(): random(3000, 8000); scheduleNextWinkCheck(): random(15000, 45000)
BlinkDelaysMs == {3000, 7999}
WinkDelaysMs == {15000, 44999}
\* how far millis() can move between loop()'s first statement and the motion
\* handler (input.update() and the I2C read of motion.update() lie between)
SensorReadMs == 1
\* time that passes in a mode in which nothing is due
IdleStepMs == 10000
\* iterations of loop() in one behaviour
MaxLoops == 6

\* unsigned long a - b.  A difference that wraps is 2^32 - (b - a), above every
\* delay it is compared with here; it is stood for by the largest integer
WrappedMs == 2147483647
sinceMs(a, b) == IF a >= b THEN a - b ELSE WrappedMs

staticIdle(e) == e.currentState = "IDLE" /\ e.currentFrame = 0 /\ ~e.playing

NoDizzy == [active |-> FALSE, steady |-> FALSE]
NoBack == [route |-> "none", checked |-> FALSE, primed |-> FALSE]

\* setup(): WIFI_SETUP when the setup wizard has not been completed
InitLoop ==
    /\ currentMode \in {"ANIMATIONS", "WIFI_SETUP"}
    /\ isShaking = FALSE
    /\ lastShakeTime = 0
    /\ wasPlaying = FALSE
    /\ lastMenuActivity = 0
    /\ lastBlinkTime = 0
    /\ nextBlinkDelay \in BlinkDelaysMs
    /\ lastWinkCheck = 0
    /\ nextWinkDelay \in WinkDelaysMs
    /\ lpc = "input"
    /\ currentTime = 0
    /\ loops = 0
    /\ hDizzy = NoDizzy
    /\ hBack = NoBack

\* one of these states, for the specifications that leave loop() out
InitLoopAtRest ==
    /\ InitLoop
    /\ currentMode = "ANIMATIONS"
    /\ nextBlinkDelay = 3000
    /\ nextWinkDelay = 15000

\* --- onMenuStateChange(item): the mode, the engine, and whether the device
\* restarts.  The settings part acts on the display, the motion sensor and the
\* weather service only.
itemMode(item, mode) ==
    CASE item \in {"idleAnimItem", "winkAnimItem", "dizzyAnimItem"} -> "ANIMATIONS"
      [] item \in {"tempHumidItem", "soundLevelItem"} -> "SENSORS"
      [] item = "wifiConfigureItem" -> "WIFI_SETUP"
      [] item = "wifiStatusItem" -> "WIFI_INFO"
      [] item = "weatherViewItem" -> "WEATHER_VIEW"
      [] item = "weatherPrivacyItem" -> "WEATHER_PRIVACY"
      [] item = "weatherAboutItem" -> "WEATHER_ABOUT"
      [] item = "clockItem" -> "CLOCK_VIEW"
      [] item = "pomodoroItem" -> "POMODORO_VIEW"
      [] OTHER -> mode

itemAnimator(item, e, t) ==
    CASE item = "idleAnimItem" -> play(e, "IDLE", TRUE, FALSE, t)
      [] item = "winkAnimItem" -> play(e, "WINK", TRUE, FALSE, t)
      [] item = "dizzyAnimItem" -> play(e, "DIZZY", TRUE, FALSE, t)
      [] OTHER -> e

\* wifi.resetSetupWizard() and wifi.factoryReset() end in ESP.restart()
itemRestarts(item) == item \in {"rerunSetupItem", "factoryResetItem"}

\* the histories after a step that is not a Shake: an episode ends when the
\* mode leaves Animations or the engine turns to another animation
dizzyAfter(h, mode, e) ==
    IF mode # "ANIMATIONS" \/ e.currentState # "DIZZY" THEN NoDizzy ELSE h

backAfter(h, modeBefore, mode, route) ==
    IF mode # "ANIMATIONS" THEN NoBack
    ELSE IF modeBefore # "ANIMATIONS"
         THEN [route |-> route, checked |-> FALSE, primed |-> FALSE]
         ELSE h

\* --- loop(): input.update() with no event
LoopInput ==
    /\ lpc = "input"
    /\ loops' = loops + 1
    /\ currentTime' = nowMs
    /\ lpc' = "motion"
    /\ UNCHANGED <<nowMs, animator, currentMode, isShaking, lastShakeTime,
                   wasPlaying, lastMenuActivity, lastBlinkTime, nextBlinkDelay,
                   lastWinkCheck, nextWinkDelay, hDizzy, hBack, menuVars>>

\* --- loop(): input.update() calls onButtonEvent(event)
LoopButton(event) ==
    LET inMenu == currentMode = "MENU"
        edits == /\ inMenu
                 /\ event = "CLICK"
                 /\ getCurrentItem(menuSystem) \in ValueItems
        exits == inMenu /\ event = "LONG_PRESS" /\ isAtRoot(menuSystem)
        nav == IF inMenu /\ ~edits /\ ~exits
               THEN IF event = "CLICK" THEN "SELECT" ELSE "BACK"
               ELSE "none"
        item == IF nav = "none" THEN "none"
                ELSE navigateCallbackItem(menuSystem, nav)
        toMenu == \/ currentMode = "ANIMATIONS"
                  \/ currentMode \notin {"ANIMATIONS", "MENU"} /\ event = "LONG_PRESS"
        mode == IF toMenu THEN "MENU"
                ELSE IF exits THEN "ANIMATIONS"
                ELSE itemMode(item, currentMode)
    IN  /\ lpc = "input"
        /\ loops' = loops + 1
        /\ currentTime' = nowMs
        /\ currentMode' = mode
        /\ menuSystem' = IF nav = "none" THEN menuSystem
                         ELSE navigate(menuSystem, nav)
        /\ hNav' = IF nav = "none" THEN hNav ELSE navigated(nav, menuSystem)
        /\ animator' = itemAnimator(item, animator, nowMs)
        /\ encoderEditMode' =
               IF edits THEN ~encoderEditMode
               ELSE IF exits \/ (toMenu /\ currentMode \notin {"ANIMATIONS", "POMODORO_VIEW"})
                    THEN FALSE
                    ELSE encoderEditMode
        /\ lastMenuActivity' = IF toMenu \/ inMenu THEN nowMs ELSE lastMenuActivity
        /\ lpc' = IF itemRestarts(item) THEN "off" ELSE "motion"
        /\ hDizzy' = dizzyAfter(hDizzy, mode, animator')
        /\ hBack' = backAfter(hBack, currentMode, mode,
                              IF exits THEN "long_press" ELSE "item")
        /\ UNCHANGED <<nowMs, items, isShaking, lastShakeTime, wasPlaying,
                       lastBlinkTime, nextBlinkDelay, lastWinkCheck, nextWinkDelay>>

\* --- loop(): input.update() calls onEncoderEvent(ROTATED_CW or ROTATED_CCW)
LoopEncoder(cw) ==
    LET inMenu == currentMode = "MENU"
        navigates == /\ inMenu
                     /\ ~(encoderEditMode /\ getCurrentItem(menuSystem) \in ValueItems)
        item == IF navigates
                THEN navigateCallbackItem(menuSystem, IF cw THEN "DOWN" ELSE "UP")
                ELSE "none"
        mode == itemMode(item, currentMode)
    IN  /\ lpc = "input"
        /\ loops' = loops + 1
        /\ currentTime' = nowMs
        /\ IF inMenu THEN EncoderRotate(cw) ELSE UNCHANGED menuVars
        /\ currentMode' = mode
        /\ animator' = itemAnimator(item, animator, nowMs)
        /\ lastMenuActivity' = IF inMenu THEN nowMs ELSE lastMenuActivity
        /\ lpc' = IF itemRestarts(item) THEN "off" ELSE "motion"
        /\ hDizzy' = dizzyAfter(hDizzy, mode, animator')
        /\ hBack' = backAfter(hBack, currentMode, mode, "item")
        /\ UNCHANGED <<nowMs, isShaking, lastShakeTime, wasPlaying,
                       lastBlinkTime, nextBlinkDelay, lastWinkCheck, nextWinkDelay>>

\* --- loop(): motion.update(), with onMotionEvent(SHAKE) when shake is true.
\* The sensor reports a Shake at most every SHAKE_COOLDOWN_MS.
onMotionStartsDizzy(shaking, e) == ~shaking /\ e.currentState # "DIZZY"

LoopMotion(shake, d) ==
    LET t == IF shake THEN nowMs + d ELSE nowMs
        inAnimations == shake /\ currentMode = "ANIMATIONS"
        inMenu == shake /\ currentMode = "MENU"
        starts == inAnimations /\ onMotionStartsDizzy(isShaking, animator)
        exits == inMenu /\ isAtRoot(menuSystem)
        item == IF inMenu /\ ~exits
                THEN navigateCallbackItem(menuSystem, "BACK") ELSE "none"
        mode == IF exits THEN "ANIMATIONS" ELSE itemMode(item, currentMode)
    IN  /\ lpc = "motion"
        /\ shake => t - lastShakeTime >= SHAKE_COOLDOWN_MS
        /\ nowMs' = t
        /\ lastShakeTime' = IF shake THEN t ELSE lastShakeTime
        /\ isShaking' = IF inAnimations THEN TRUE ELSE isShaking
        /\ animator' = IF starts THEN play(animator, "DIZZY", TRUE, TRUE, t)
                       ELSE itemAnimator(item, animator, t)
        /\ currentMode' = mode
        /\ menuSystem' = IF inMenu /\ ~exits THEN navigate(menuSystem, "BACK")
                         ELSE menuSystem
        /\ hNav' = IF inMenu /\ ~exits THEN navigated("BACK", menuSystem)
                   ELSE hNav
        /\ lastMenuActivity' = IF inMenu THEN t ELSE lastMenuActivity
        /\ lpc' = IF itemRestarts(item) THEN "off" ELSE "wifi"
        /\ hDizzy' = IF starts THEN [active |-> TRUE, steady |-> TRUE]
                     ELSE dizzyAfter(hDizzy, mode, animator')
        /\ hBack' = backAfter(hBack, currentMode, mode,
                              IF exits THEN "shake" ELSE "item")
        /\ UNCHANGED <<items, encoderEditMode, wasPlaying, lastBlinkTime,
                       nextBlinkDelay, lastWinkCheck, nextWinkDelay,
                       currentTime, loops>>

\* --- loop(): wifi.update(), with onWiFiEvent(event) unless event is "NONE".
\* The connection state of the WiFi manager depends on the network and is left
\* open: a failed connection (AP_STARTED) or a connection made (CONNECTED) may
\* be reported by any update.
LoopWifi(event) ==
    LET mode == IF event = "AP_STARTED" THEN "WIFI_SETUP"
                ELSE IF event = "CONNECTED" /\ currentMode = "WIFI_SETUP"
                     THEN "ANIMATIONS"
                     ELSE currentMode
    IN  /\ lpc = "wifi"
        /\ currentMode' = mode
        /\ lpc' = "animate"
        /\ hDizzy' = dizzyAfter(hDizzy, mode, animator)
        /\ hBack' = backAfter(hBack, currentMode, mode, "wifi")
        /\ UNCHANGED <<nowMs, animator, menuVars, isShaking, lastShakeTime,
                       wasPlaying, lastMenuActivity, lastBlinkTime, nextBlinkDelay,
                       lastWinkCheck, nextWinkDelay, currentTime, loops>>

\* --- loop(): animator.update() and the check "shaking stopped"
shakingStopped(shaking, tNow, tLast) ==
    shaking /\ sinceMs(tNow, tLast) > SHAKE_COOLDOWN

LoopAnimate ==
    LET e == animatorUpdate(animator, nowMs)
        stopped == shakingStopped(isShaking, currentTime, lastShakeTime)
    IN  /\ lpc = "animate"
        /\ animator' = IF stopped THEN stopLoopingGracefully(e) ELSE e
        /\ isShaking' = IF stopped THEN FALSE ELSE isShaking
        /\ lpc' = "mode"
        /\ UNCHANGED <<nowMs, menuVars, currentMode, lastShakeTime, wasPlaying,
                       lastMenuActivity, lastBlinkTime, nextBlinkDelay,
                       lastWinkCheck, nextWinkDelay, currentTime, loops,
                       hDizzy, hBack>>

\* --- loop(): the update of the current mode, and delay(10)
\* updateAnimationsMode(): the check "animation just stopped"
justStopped(was, e, shaking) == was /\ ~e.playing /\ ~shaking

\* checkMenuTimeout()
menuTimedOutLate(tNow, tLast) == sinceMs(tNow, tLast) > 2 * MENU_TIMEOUT_MS

menuTimedOut(tNow, tLast) == sinceMs(tNow, tLast) > MENU_TIMEOUT_MS

\* the times at which something becomes due in a state
Deadlines(e, mode, shaking, tShake, tMenu, tBlink, dBlink, tWink, dWink) ==
    (IF e.playing /\ ~e.paused THEN {e.lastFrameTime + FrameDelayMs} ELSE {})
    \cup (IF shaking THEN {tShake + SHAKE_COOLDOWN + 1} ELSE {})
    \cup (IF mode = "MENU" THEN {tMenu + MENU_TIMEOUT_MS + 1} ELSE {})
    \cup (IF mode = "ANIMATIONS" /\ ~e.playing /\ ~shaking
          THEN {tBlink + dBlink, tWink + dWink} ELSE {})

\* delay(10), and with it the iterations of loop() that follow in which no
\* event arrives and nothing is due: the next iteration that is modelled
\* starts at the first time something is due or, when nothing is pending,
\* after IdleStepMs.  It starts right after the delay when something is due
\* already, or when updateAnimationsMode() has yet to record in wasPlaying
\* that an animation started.
LoopTime(tNow, due, settled) ==
    IF ~settled \/ \E t \in due : t <= tNow + LOOP_DELAY_MS
    THEN tNow + LOOP_DELAY_MS
    ELSE IF due = {} THEN tNow + IdleStepMs
    ELSE CHOOSE t \in due : \A u \in due : t <= u

LoopMode(blinkDelay, winkDelay, wink) ==
    LET inAnimations == currentMode = "ANIMATIONS"
        isPlaying_ == animator.playing
        stoppedNow == inAnimations /\ justStopped(wasPlaying, animator, isShaking)
        e1 == IF stoppedNow THEN showStaticFrame(animator, "IDLE", 0) ELSE animator
        random == inAnimations /\ ~isPlaying_ /\ ~isShaking
        blinks == random /\ sinceMs(nowMs, lastBlinkTime) >= nextBlinkDelay
        winkCheck == random /\ ~blinks /\ sinceMs(nowMs, lastWinkCheck) >= nextWinkDelay
        timeout == /\ currentMode = "MENU"
                   /\ menuTimedOut(nowMs, lastMenuActivity)
        mode == IF timeout THEN "ANIMATIONS" ELSE currentMode
        e2 == IF blinks THEN play(e1, "IDLE", TRUE, FALSE, nowMs)
              ELSE IF winkCheck /\ wink THEN play(e1, "WINK", TRUE, FALSE, nowMs)
              ELSE IF timeout THEN showStaticFrame(animator, "IDLE", 0)
              ELSE e1
    IN  /\ lpc = "mode"
        /\ animator' = e2
        /\ wasPlaying' = IF inAnimations THEN isPlaying_ ELSE wasPlaying
        /\ lastBlinkTime' = IF blinks THEN nowMs ELSE lastBlinkTime
        /\ nextBlinkDelay' = IF blinks THEN blinkDelay ELSE nextBlinkDelay
        /\ lastWinkCheck' = IF winkCheck THEN nowMs ELSE lastWinkCheck
        /\ nextWinkDelay' = IF winkCheck THEN winkDelay ELSE nextWinkDelay
        /\ currentMode' = mode
        /\ menuSystem' = IF timeout /\ ~isAtRoot(menuSystem)
                         THEN menuInit("mainMenu") ELSE menuSystem
        /\ hNav' = IF timeout /\ ~isAtRoot(menuSystem) THEN NoNav ELSE hNav
        /\ lpc' = "input"
        /\ nowMs' = LoopTime(nowMs,
                             Deadlines(e2, mode, isShaking, lastShakeTime,
                                       lastMenuActivity, lastBlinkTime',
                                       nextBlinkDelay', lastWinkCheck',
                                       nextWinkDelay'),
                             mode # "ANIMATIONS" \/ wasPlaying' = e2.playing)
        /\ hDizzy' = IF ~inAnimations \/ e2.currentState # "DIZZY" THEN NoDizzy
                     ELSE [hDizzy EXCEPT
                              !.steady = @ /\ nowMs' - lastShakeTime < SHAKE_COOLDOWN]
        /\ hBack' = IF timeout
                    THEN [route |-> IF isAtRoot(menuSystem) THEN "timeout"
                                    ELSE "timeout_submenu",
                          checked |-> TRUE,
                          primed |-> e2.playing \/ staticIdle(e2)]
                    ELSE IF inAnimations /\ hBack.route # "none" /\ ~hBack.checked
                         THEN [hBack EXCEPT !.checked = TRUE,
                                            !.primed = e2.playing \/ staticIdle(e2)]
                         ELSE hBack
        /\ UNCHANGED <<items, encoderEditMode, isShaking, lastShakeTime,
                       lastMenuActivity, currentTime, loops>>

\* --- loop() with the Pomodoro view open
pomodoroRest == <<weatherRest, engineVars, isShaking, lastShakeTime, wasPlaying, lastBlinkTime, nextBlinkDelay, lastWinkCheck, nextWinkDelay, currentTime, hDizzy, hBack, menuVars, button, encoder, hIn, wifiMgr, prefs, hWifi, displayVars, behaviourVars, hLink, parent>>

\* loop(): input.update() with no event
PomInput ==
    /\ lpc = "input"
    /\ loops' = loops + 1
    /\ lpc' = "mode"
    /\ UNCHANGED <<nowMs, pomodoro, currentMode, lastMenuActivity, pomodoroRest>>

\* loop(): input.update() calls onButtonEvent(event) in the Pomodoro view
PomButton(event) ==
    /\ lpc = "input"
    /\ currentMode = "POMODORO_VIEW"
    /\ loops' = loops + 1
    /\ pomodoro' = IF event = "CLICK" THEN pomodoroClick(pomodoro, nowMs)
                   ELSE pomodoroReset(pomodoro)
    /\ currentMode' = IF event = "LONG_PRESS" THEN "MENU" ELSE currentMode
    /\ lastMenuActivity' = IF event = "LONG_PRESS" THEN nowMs ELSE lastMenuActivity
    /\ lpc' = "mode"
    /\ UNCHANGED <<nowMs, pomodoroRest>>

\* loop(): input.update() calls onButtonEvent(CLICK) in the menu with the
\* Pomodoro item selected: onMenuStateChange() opens the view
PomSelect ==
    /\ lpc = "input"
    /\ currentMode = "MENU"
    /\ getCurrentItem(menuSystem) = "pomodoroItem"
    /\ loops' = loops + 1
    /\ currentMode' = itemMode("pomodoroItem", currentMode)
    /\ lastMenuActivity' = nowMs
    /\ lpc' = "mode"
    /\ UNCHANGED <<nowMs, pomodoro, pomodoroRest>>

\* iterations of loop() without input while a session runs, up to `margin` ms
\* before its end: the view has drawn the time left every PomodoroViewPeriodMs
\* or more, the last time `age` ms ago
PomWait(margin, age) ==
    /\ lpc = "input"
    /\ currentMode = "POMODORO_VIEW"
    /\ pomodoro.state \in {"WORK_RUNNING", "BREAK_RUNNING"}
    /\ age < PomodoroViewPeriodMs
    /\ u32Less(nowMs + margin, pomodoro.targetMs)
    /\ pomodoro.lastUpdate <= pomodoro.targetMs - margin - age
    /\ nowMs' = pomodoro.targetMs - margin
    /\ pomodoro' = [pomodoro EXCEPT !.lastUpdate = nowMs' - age]
    /\ UNCHANGED <<lpc, loops, currentMode, lastMenuActivity, pomodoroRest>>

\* loop(): the switch on the mode, then delay(); d ms pass until the next
\* iteration.  The menu is left for the view before it times out.
PomMode(d) ==
    /\ lpc = "mode"
    /\ currentMode = "MENU" => ~menuTimedOut(nowMs + d, lastMenuActivity)
    /\ pomodoro' = IF currentMode = "POMODORO_VIEW"
                   THEN updatePomodoroViewMode(pomodoro, nowMs)
                   ELSE pomodoro
    /\ nowMs' = nowMs + d
    /\ lpc' = "input"
    /\ UNCHANGED <<loops, currentMode, lastMenuActivity, pomodoroRest>>

ButtonEvents == {"CLICK", "LONG_PRESS"}
WiFiEvents == {"NONE", "AP_STARTED", "CONNECTED"}

\* loop() and the handlers, with the weather service at rest
InitLoopSpec ==
    InitWeather /\ ~nvs.hasLoc /\ InitEngine /\ InitLoop /\ InitMenu /\ InitInputAtRest

loopRest == <<weatherRest, aticks, hRun, ioVars>>

NextLoop ==
    \/ loops < MaxLoops /\ LoopInput /\ UNCHANGED loopRest
    \/ \E ev \in ButtonEvents :
          loops < MaxLoops /\ LoopButton(ev) /\ UNCHANGED loopRest
    \/ \E cw \in BOOLEAN :
          loops < MaxLoops /\ LoopEncoder(cw) /\ UNCHANGED loopRest
    \/ \E shake \in BOOLEAN, d \in {0, SensorReadMs} :
          LoopMotion(shake, d) /\ UNCHANGED loopRest
    \/ \E ev \in WiFiEvents : LoopWifi(ev) /\ UNCHANGED loopRest
    \/ LoopAnimate /\ UNCHANGED loopRest
    \/ \E b \in BlinkDelaysMs, w \in WinkDelaysMs, wink \in BOOLEAN :
          LoopMode(b, w, wink) /\ UNCHANGED loopRest

LoopSpec == InitLoopSpec /\ [][NextLoop]_vars

\* loop() and the handlers with the network silent, the sensor read taking
\* no time and the random delays at their least: the behaviours of LoopSpec
\* in which the user works the menu, followed for more iterations
MaxNavLoops == 10

NextNav ==
    \/ loops < MaxNavLoops /\ LoopInput /\ UNCHANGED loopRest
    \/ \E ev \in ButtonEvents :
          loops < MaxNavLoops /\ LoopButton(ev) /\ UNCHANGED loopRest
    \/ \E cw \in BOOLEAN :
          loops < MaxNavLoops /\ LoopEncoder(cw) /\ UNCHANGED loopRest
    \/ \E shake \in BOOLEAN : LoopMotion(shake, 0) /\ UNCHANGED loopRest
    \/ LoopWifi("NONE") /\ UNCHANGED loopRest
    \/ LoopAnimate /\ UNCHANGED loopRest
    \/ LoopMode(3000, 15000, FALSE) /\ UNCHANGED loopRest

\* loop() through minutes without input, and the few input events that end
\* such a period.  No statement of loop(), of the handlers or of the modes
\* calls display.setPower(), fadeIn() or fadeOut(): the panel is left as it is
MaxIdleLoops == 34
MaxActivity == 2

sleepRest == <<weatherRest, aticks, hRun, button, encoder, hIn, wifiMgr, prefs,
               hWifi, behaviourVars, hLink, pomodoro, parent>>

NextSleep ==
    \/ /\ loops < MaxIdleLoops
       /\ LoopInput
       /\ UNCHANGED <<sleepRest, displayVars>>
    \/ \E ev \in ButtonEvents :
          /\ loops < MaxIdleLoops /\ hActivity.events < MaxActivity
          /\ LoopButton(ev)
          /\ hActivity' = activityAt(hActivity, nowMs)
          /\ UNCHANGED <<sleepRest, display>>
    \/ \E cw \in BOOLEAN :
          /\ loops < MaxIdleLoops /\ hActivity.events < MaxActivity
          /\ LoopEncoder(cw)
          /\ hActivity' = activityAt(hActivity, nowMs)
          /\ UNCHANGED <<sleepRest, display>>
    \/ /\ LoopMotion(FALSE, 0)
       /\ UNCHANGED <<sleepRest, displayVars>>
    \/ /\ hActivity.events < MaxActivity
       /\ LoopMotion(TRUE, 0)
       /\ hActivity' = activityAt(hActivity, nowMs)
       /\ UNCHANGED <<sleepRest, display>>
    \/ LoopWifi("NONE") /\ UNCHANGED <<sleepRest, displayVars>>
    \/ LoopAnimate /\ UNCHANGED <<sleepRest, displayVars>>
    \/ LoopMode(3000, 15000, FALSE) /\ UNCHANGED <<sleepRest, displayVars>>

InitSleepSpec == InitLoopSpec /\ nextBlinkDelay = 3000 /\ nextWinkDelay = 15000

SleepSpec == InitSleepSpec /\ [][NextSleep]_vars

\* the behaviour state machine and its engine in a loop that calls both
\* update() methods, with reactions triggered and stopped at any time
Reactions == {"SURPRISED", "DIZZY"}

NextBeh ==
    \/ \E blinkDelay \in BlinkDelaysSecs, actionDelay \in RandomActionDelaysSecs,
          chance \in BOOLEAN : BehUpdate(blinkDelay, actionDelay, chance)
    \/ BehAnimate
    \/ \E state \in Reactions, loop \in BOOLEAN : BehTriggerReaction(state, loop)
    \/ BehStopReaction
    \/ BehTick

InitBehSpec ==
    /\ InitWeather /\ ~nvs.hasLoc /\ InitLoopAtRest /\ InitMenu
    /\ button = Button(FALSE)
    /\ encoder = RotaryEncoder(ENCODER_STEPS_PER_DETENT, 3, FALSE)
    /\ hIn = NoInput
    /\ InitWifiAtRest
    /\ InitDisplayAtRest
    /\ hLink = "up"
    /\ pomodoro = Pomodoro0
    /\ parent = MenuItem0
    /\ InitBehaviour

BehSpec == InitBehSpec /\ [][NextBeh]_vars

\* the loop keeps running and the clock keeps advancing
BehFairSpec ==
    /\ BehSpec
    /\ WF_vars(\E blinkDelay \in BlinkDelaysSecs,
                  actionDelay \in RandomActionDelaysSecs, chance \in BOOLEAN :
                   BehUpdate(blinkDelay, actionDelay, chance))
    /\ WF_vars(BehAnimate)
    /\ WF_vars(BehTick)

\* the menu system and the items on their own
InitMenuSpec ==
    /\ InitWeather /\ ~nvs.hasLoc /\ InitEngine /\ InitLoopAtRest /\ InitMenu
    /\ InitInputAtRest

menuRest == <<weatherVars, engineVars, loopVars, ioVars>>

NextMenu ==
    \/ \E dir \in MenuNav : MenuNavigate(dir) /\ UNCHANGED menuRest
    \/ MenuReInit /\ UNCHANGED menuRest
    \/ ClickValueItem /\ UNCHANGED menuRest
    \/ \E cw \in BOOLEAN : EncoderRotate(cw) /\ UNCHANGED menuRest

MenuSpec == InitMenuSpec /\ [][NextMenu]_vars

NavSpec == InitMenuSpec /\ [][NextNav]_vars

\* the Value and Toggle items on their own, their methods called one at a time
NextItem ==
    \/ \E it \in ValueItems : ItemIncrementValue(it) /\ UNCHANGED menuRest
    \/ \E it \in ValueItems : ItemDecrementValue(it) /\ UNCHANGED menuRest
    \/ \E it \in ValueItems, v \in SetValueArgs : ItemSetValue(it, v) /\ UNCHANGED menuRest
    \/ \E it \in ValueItems : ItemToggle(it) /\ UNCHANGED menuRest
    \/ \E it \in ValueItems, cw \in BOOLEAN : ItemEncoderEdit(it, cw) /\ UNCHANGED menuRest

ItemSpec == InitMenuSpec /\ [][NextItem]_vars

\* the engine, with the weather service at rest
InitAnim ==
    /\ InitWeather /\ ~nvs.hasLoc /\ InitEngine /\ InitLoopAtRest /\ InitMenu
    /\ InitInputAtRest

NextAnim ==
    \/ \E a \in CustomAnimations : CallRegisterAnimation(a)
    \/ \E st \in StateArgs, pr, fl \in BOOLEAN : CallPlay(st, pr, fl)
    \/ CallStop
    \/ \E b \in BOOLEAN : CallSetPaused(b)
    \/ CallUpdate
    \/ \E k \in FrameArgs : CallPauseOnFrame(k)
    \/ \E st \in StateArgs, k \in FrameArgs : CallShowStaticFrame(st, k)
    \/ CallStopLoopingGracefully
    \/ AnimTick

AnimSpec == InitAnim /\ [][NextAnim]_vars

\* the button of the encoder and the touch sensor, polled at varying intervals
\* while the pin does whatever it does
inputRest ==
    <<weatherRest, engineVars, loopVars, menuVars, wifiMgr, prefs, hWifi, appVars>>

NextButton ==
    \/ \E rawState \in BOOLEAN, d \in UpdateStepsMs :
          /\ hIn.updates < MaxUpdates
          /\ EncoderUpdate(encoder.lastEncoded, rawState, d)
          /\ UNCHANGED inputRest
    \/ \E rawState \in BOOLEAN, d \in UpdateStepsMs :
          /\ hIn.updates < MaxUpdates
          /\ TouchUpdate(rawState, d)
          /\ UNCHANGED inputRest

InitButtonAlone ==
    /\ InitWeather /\ ~nvs.hasLoc /\ InitEngine /\ InitLoopAtRest /\ InitMenu
    /\ InitButtonSpec

ButtonSpec == InitButtonAlone /\ [][NextButton]_vars

\* the encoder turned either way, or its pins jumping, polled at intervals
\* under and over the acceleration threshold
NextEnc ==
    \E encoded \in Encoded, d \in {ShortMs, MidMs} :
        /\ hIn.updates < MaxTurns
        /\ EncoderUpdate(encoded, FALSE, d)
        /\ UNCHANGED inputRest

InitEncAlone ==
    /\ InitWeather /\ ~nvs.hasLoc /\ InitEngine /\ InitLoopAtRest /\ InitMenu
    /\ InitEncSpec

EncSpec == InitEncAlone /\ [][NextEnc]_vars

\* the WiFi manager through boots, updates, the portal and the WiFi menu
loopOther == <<isShaking, lastShakeTime, wasPlaying, lastMenuActivity,
               lastBlinkTime, nextBlinkDelay, lastWinkCheck, nextWinkDelay,
               lpc, currentTime, loops, hDizzy, hBack>>
wifiRest == <<weatherVars, engineVars, loopOther, menuVars, button, encoder, hIn,
              appVars>>

NextWifi ==
    \/ \E d \in WifiStepsMs \cup WifiShortStepsMs :
          WifiUpdate(d) /\ UNCHANGED wifiRest
    \/ \E c \in PortalInputs, stale \in BOOLEAN :
          PortalSubmit(c, stale) /\ UNCHANGED wifiRest
    \/ MenuConfigure /\ UNCHANGED wifiRest
    \/ MenuForget /\ UNCHANGED wifiRest
    \/ LinkLost /\ UNCHANGED wifiRest
    \/ \E factory \in BOOLEAN : Restart(factory) /\ UNCHANGED wifiRest

InitWifiSpec ==
    /\ InitWeather /\ ~nvs.hasLoc /\ InitEngine /\ InitMenu
    /\ InitLoop /\ nextBlinkDelay = 3000 /\ nextWinkDelay = 15000
    /\ button = Button(FALSE)
    /\ encoder = RotaryEncoder(ENCODER_STEPS_PER_DETENT, 3, FALSE)
    /\ hIn = NoInput
    /\ InitAppAtRest
    /\ \E p \in StoredPrefs : InitWifi(p)
    /\ currentMode = IF setupShowsWizard(wifiMgr) THEN "WIFI_SETUP"
                     ELSE "ANIMATIONS"

WifiSpec == InitWifiSpec /\ [][NextWifi]_vars

\* loop() keeps running
WifiFairSpec ==
    /\ WifiSpec
    /\ WF_vars(\E d \in WifiStepsMs : WifiUpdate(d) /\ UNCHANGED wifiRest)

\* the WiFi manager while the network comes and goes: the portal brings the
\* connection about, and from then on loop() runs with no one at the device
reconnectRest == <<weatherVars, engineVars, loopOther, menuVars, button, encoder,
                   hIn, displayVars, behaviourVars, pomodoro, parent>>

NextReconnect ==
    \/ \E d \in WifiStepsMs \cup WifiShortStepsMs :
          WifiUpdate(d) /\ UNCHANGED <<reconnectRest, hLink>>
    \/ \E c \in PortalInputs, stale \in BOOLEAN :
          PortalSubmit(c, stale) /\ hLink' = "up" /\ UNCHANGED reconnectRest
    \/ NetworkDown /\ UNCHANGED reconnectRest
    \/ NetworkUp /\ UNCHANGED reconnectRest

ReconnectSpec == InitWifiSpec /\ [][NextReconnect]_vars

\* loop() keeps running
ReconnectFairSpec ==
    /\ ReconnectSpec
    /\ WF_vars(\E d \in WifiStepsMs :
                   WifiUpdate(d) /\ UNCHANGED <<reconnectRest, hLink>>)

\* ------------------------------------------------------------------------
\* Specification
\* ------------------------------------------------------------------------
Init == InitWeather /\ InitEngine /\ InitLoopAtRest /\ InitMenu /\ InitInputAtRest

NextWeather ==
    \/ Update
    \/ ForceUpdate
    \/ \E e \in BOOLEAN : SetEnabled(e)
    \/ WorkerStep
    \/ TaskDelete
    \/ ViewCheck
    \/ ViewDays
    \/ WifiUp
    \/ WifiDown
    \/ \E d \in TimeStepsMs : Tick(d)

\* the weather service, with the rest of the firmware at rest
Next ==
    \/ Update /\ UNCHANGED asideVars
    \/ ForceUpdate /\ UNCHANGED asideVars
    \/ \E e \in BOOLEAN : SetEnabled(e) /\ UNCHANGED asideVars
    \/ FetchTaskBegin /\ UNCHANGED asideVars
    \/ LocationBegin /\ UNCHANGED asideVars
    \/ LocationRequest /\ UNCHANGED asideVars
    \/ LocationSave /\ UNCHANGED asideVars
    \/ WeatherBegin /\ UNCHANGED asideVars
    \/ WeatherRequest /\ UNCHANGED asideVars
    \/ ParseDay /\ UNCHANGED asideVars
    \/ ParseDone /\ UNCHANGED asideVars
    \/ WeatherSave /\ UNCHANGED asideVars
    \/ FetchTaskEnd /\ UNCHANGED asideVars
    \/ TaskDelete /\ UNCHANGED asideVars
    \/ ViewCheck /\ UNCHANGED asideVars
    \/ ViewDays /\ UNCHANGED asideVars
    \/ WifiUp /\ UNCHANGED asideVars
    \/ WifiDown /\ UNCHANGED asideVars
    \/ \E d \in TimeStepsMs : Tick(d) /\ UNCHANGED asideVars

Spec == Init /\ [][Next]_vars

\* the scheduler runs a ready worker task, and a task that has returned
\* deletes itself
FairSpec ==
    /\ Spec
    /\ WF_vars(WorkerStep /\ UNCHANGED asideVars)
    /\ WF_vars(TaskDelete /\ UNCHANGED asideVars)

\* the Pomodoro view, opened from the menu for the first time, and a loop
\* whose iterations are LOOP_DELAY_MS or more apart
MaxPomodoroLoops == 6
PomodoroStepsMs == {LOOP_DELAY_MS, 60}
PomodoroMarginsMs == {30}
PomodoroAgesMs == {0, 90}

NextPomodoro ==
    \/ loops < MaxPomodoroLoops /\ PomInput
    \/ \E event \in ButtonEvents : loops < MaxPomodoroLoops /\ PomButton(event)
    \/ loops < MaxPomodoroLoops /\ PomSelect
    \/ \E margin \in PomodoroMarginsMs, age \in PomodoroAgesMs : PomWait(margin, age)
    \/ \E d \in PomodoroStepsMs : PomMode(d)

InitPomodoroSpec ==
    /\ InitWeather /\ ~nvs.hasLoc /\ InitEngine /\ InitInputAtRest
    /\ currentMode = "POMODORO_VIEW"
    /\ isShaking = FALSE /\ lastShakeTime = 0 /\ wasPlaying = FALSE
    /\ lastMenuActivity = 0 /\ lastBlinkTime = 0 /\ nextBlinkDelay = 3000
    /\ lastWinkCheck = 0 /\ nextWinkDelay = 15000
    /\ lpc = "input" /\ currentTime = 0 /\ loops = 0
    /\ hDizzy = NoDizzy /\ hBack = NoBack
    /\ menuSystem = navigate(menuInit("mainMenu"), "DOWN")
    /\ items = itemsSetup(enabled_)
    /\ encoderEditMode = FALSE
    /\ hNav = NoNav

PomodoroSpec == InitPomodoroSpec /\ [][NextPomodoro]_vars

\* one MenuItem that is given children, one addChild() at a time
MaxChildAdds == 12
ChildItems == {"clockItem", "pomodoroItem"}
\* what lies behind the array: padding of its own block, or another block
BehindArray == {"padding", "block"}

NextChild ==
    \E item \in ChildItems, found \in BehindArray :
        parent.childCount < MaxChildAdds /\ AddChild(item, found)

ChildSpec == Init /\ [][NextChild]_vars

\* ------------------------------------------------------------------------
\* Properties of the weather service
\* ------------------------------------------------------------------------
\* a worker has been created and has not yet made a step
fetchStarted == wpc = "begin"

\* the worker has finished its stages and is about to clear the flag
fetchFailed == wpc = "finish" /\ hFetch.outcome = "fail"
fetchSucceeded == wpc = "finish" /\ hFetch.outcome = "ok"

\* C1, as stated: at most one WeatherFetch task exists at any time
C1_OneTaskExists == liveTasks <= 1

\* C1, amended: at most one worker is inside fetchTask() at any time, and it
\* is there only while fetchInProgress_ is set, so a call of update() or
\* forceUpdate() made while isFetching() starts nothing; a task that has
\* cleared the flag and not yet deleted itself may exist beside a new one
C1_OneFetchInFlight ==
    /\ running <= 1
    /\ running = 1 => isFetching

\* C1: a new worker runs while the previous one has not yet deleted itself
C1_Witness == running = 1 /\ exiting = 1 /\ isFetching

\* C2: after hasValidData() has returned true, the records the view goes on
\* to read are whole (valid, filled, dayCount matching the day entries)
C2_ReaderSeesWholeRecord == vpc = "checked" => recordWhole

\* C3: a record that was valid when a fetch started is still valid and
\* unchanged when that fetch has failed
C3_StaleDataSurvivesFailure ==
    fetchFailed =>
        /\ hFetch.oldLoc.valid => location_ = hFetch.oldLoc
        /\ hFetch.oldFc.valid => forecast_ = hFetch.oldFc

\* C4, as stated: the state is ERROR only after 3 failures in a row, and the
\* third failure in a row sets ERROR and schedules now + updateInterval
C4_ErrorOnlyAfterThreeFailures ==
    /\ state_ = "ERROR" => hConsec = MAX_RETRIES
    /\ fetchFailed /\ hConsec = MAX_RETRIES =>
           state_ = "ERROR" /\ nextUpdateTime_ = wNow + updateIntervalSecs_

\* C4, amended: the worker sets ERROR exactly at the third failed request in a
\* row (a successful location or weather request ends the row), and then
\* schedules the next update at the fetch's start time + updateInterval; the
\* state is ERROR otherwise only when xTaskCreate has failed
C4_ErrorAtThirdFailedRequest ==
    /\ state_ = "ERROR" => hConsec = MAX_RETRIES \/ hCreateFailed
    /\ fetchFailed => (state_ = "ERROR" <=> hConsec = MAX_RETRIES)
    /\ fetchFailed /\ hConsec = MAX_RETRIES =>
           nextUpdateTime_ = wNow + updateIntervalSecs_

\* C4: the third failed request in a row has just set ERROR
C4_Witness ==
    /\ fetchFailed /\ hConsec = MAX_RETRIES /\ state_ = "ERROR"
    /\ retryCount_ = 0 /\ ~hCreateFailed

\* C5, as stated: every fetch starts at least 5 minutes after the previous start
C5_AllStartsSpaced == fetchStarted => hFetch.gap # "short"

\* C5, amended: a fetch started by update() starts at least 5 minutes after
\* the previous fetch started by update(); forceUpdate() is not held back by
\* the interval and does not count for it
C5_UpdateStartsSpaced ==
    fetchStarted /\ hFetch.by = "update" => hFetch.updGap # "short"

\* C5: update() has started a fetch again after a failed one of its own
C5_Witness ==
    fetchStarted /\ hFetch.by = "update" /\ hFetch.updGap = "ok" /\ retryCount_ > 0

\* C6: a failure that leaves the retry count below the ceiling schedules the
\* next update RETRY_DELAY_SECS after the fetch's start time
C6_RetryAfterShortDelay ==
    fetchFailed /\ hConsec # MAX_RETRIES =>
        /\ nextUpdateTime_ = wNow + RETRY_DELAY_SECS
        /\ nextUpdateTime_ # wNow + updateIntervalSecs_
        /\ retryCount_ \in 1..(MAX_RETRIES - 1)

\* C6: a second failure in a row, scheduled at the short delay
C6_Witness ==
    /\ fetchFailed /\ hConsec = 2 /\ retryCount_ = 2
    /\ nextUpdateTime_ = wNow + RETRY_DELAY_SECS

\* C7, as stated: each cache is valid iff its record is valid and
\* now - fetchTime is below the TTL
C7_ValidIffYoungerThanTtl ==
    /\ isLocationCacheValid <=>
           (location_.valid /\ now - locationFetchTime_ < LOCATION_CACHE_SECS)
    /\ isWeatherCacheValid <=>
           (forecast_.valid /\ now - weatherFetchTime_ < WEATHER_CACHE_SECS)

\* C7, amended: each cache is valid iff its record is valid, its fetch time is
\* not 0 and not ahead of the clock, and now - fetchTime is below the TTL; it
\* becomes invalid when the TTL elapses, with no invalidation call
C7_ValidIffStampedAndYounger ==
    /\ isLocationCacheValid <=>
           /\ location_.valid
           /\ locationFetchTime_ # 0
           /\ locationFetchTime_ <= now
           /\ now - locationFetchTime_ < LOCATION_CACHE_SECS
    /\ isWeatherCacheValid <=>
           /\ forecast_.valid
           /\ weatherFetchTime_ # 0
           /\ weatherFetchTime_ <= now
           /\ now - weatherFetchTime_ < WEATHER_CACHE_SECS

\* C7: the forecast has outlived its TTL and is no longer valid, the location
\* has not and still is
C7_Witness ==
    /\ forecast_.valid /\ weatherFetchTime_ # 0
    /\ now - weatherFetchTime_ >= WEATHER_CACHE_SECS
    /\ ~isWeatherCacheValid
    /\ isLocationCacheValid

\* C8: fetchInProgress_ is cleared only by the worker after it has run its
\* stages to a result (success or failure), and every fetch that has started
\* eventually clears it
C8_RunsToCompletion ==
    /\ [][fetchInProgress_ /\ ~fetchInProgress_' =>
              wpc = "finish" /\ hFetch.outcome \in {"ok", "fail"} /\ wpc' = "none"]_vars
    /\ [][wpc # "none" /\ wpc' = "none" => wpc = "finish"]_vars
    /\ (fetchInProgress_ ~> ~fetchInProgress_)

\* C8: a fetch has run to its end and cleared the flag
C8_Witness == ~fetchInProgress_ /\ exiting = 1 /\ state_ = "CACHED" /\ ticks > 0

\* C9: a fetch that update() starts when both records are valid, the forecast
\* is 5 hours old and the location is younger than 7 days asks for the weather
\* only
C9_WeatherOnly ==
    hFetch.by = "update" /\ hFetch.agedWeather =>
        /\ ~fetchNeedsLocation_
        /\ ~hFetch.didLocReq
        /\ wpc \notin {"loc", "locReq", "locSave"}
        /\ state_ # "FETCHING_LOCATION"

\* C9: such a fetch has been started and has fetched the weather
C9_Witness ==
    /\ hFetch.by = "update" /\ hFetch.agedWeather
    /\ fetchSucceeded /\ ~hFetch.didLocReq
    /\ weatherFetchTime_ >= WEATHER_CACHE_SECS + 3600

\* C10, as stated: every fetch starts with WiFi connected and at least 5 s
\* after WiFi last went from disconnected to connected
C10_StartsAfterStabilization ==
    fetchStarted => hFetch.wifi /\ hFetch.sinceUpOk

\* C10, amended: update() starts a fetch only with WiFi connected and at least
\* 5 s after the connect that update() itself last recorded (a reconnect it
\* did not see, while disabled or fetching, opens no new window);
\* forceUpdate() starts one whenever WiFi is connected
C10_StartsAfterRecordedConnect ==
    /\ fetchStarted /\ hFetch.by = "update" => hFetch.wifi /\ hFetch.seenOk
    /\ fetchStarted /\ hFetch.by = "force" => hFetch.wifi

\* C10: update() has started a fetch 5 s after the connect it recorded, less
\* than 5 s after a reconnect it did not see
C10_Witness ==
    /\ fetchStarted /\ hFetch.by = "update"
    /\ hFetch.wifi /\ hFetch.seenOk /\ ~hFetch.sinceUpOk

\* ------------------------------------------------------------------------
\* Properties of the animation engine
\* ------------------------------------------------------------------------
\* a playback that play() started and no call has since stopped, replaced or
\* moved by hand
cleanRun == hRun.active /\ hRun.clean

C13_HaltsAfterFrameCountAdvances ==
    cleanRun /\ ~hRun.forced /\ ~animator.currentAnimation.loop =>
        /\ animator.playing <=> hRun.advances < animator.currentAnimation.frameCount
        /\ animator.playing => animator.currentFrame = hRun.advances
        /\ ~animator.playing =>
               /\ hRun.advances = animator.currentAnimation.frameCount
               /\ animator.currentFrame = animator.currentAnimation.frameCount - 1

\* C13: the three frames of such an animation have been played and it has halted
C13_Witness ==
    /\ cleanRun /\ ~hRun.forced /\ ~animator.currentAnimation.loop
    /\ animator.currentAnimation.frameCount = DizzyFrames
    /\ ~animator.playing /\ hRun.advances = DizzyFrames

\* C14: a call play(state, priority = false) made while the same state is
\* playing, or while an animation that does not loop is playing, changes no
\* field of the engine
C14_PlayIsNoOp == hRun.guarded => animator = hRun.before

\* C14: such a call has just been made on an animation in the middle of its frames
C14_Witness ==
    /\ hRun.guarded /\ animator.playing
    /\ animator.currentFrame > 0
    /\ ~animator.currentAnimation.loop


\* ------------------------------------------------------------------------
\* Properties of the main loop: shaking, Dizzy and the return to idle
\* ------------------------------------------------------------------------

\* C15: from the Shake that starts Dizzy on, for as long as the mode stays
\* Animations and no 1000 ms pass without a further Shake, Dizzy keeps playing
\* in its forced loop (it is neither restarted nor told to stop)
C15_DizzyKeepsLooping ==
    hDizzy.steady =>
        /\ animator.playing
        /\ animator.currentState = "DIZZY"
        /\ animator.continuousLoop

\* C16: in the Animations mode, when an iteration of loop() ends with the
\* shaking over and the Dizzy a Shake started no longer playing, the engine
\* shows the idle base frame (IDLE, frame 0, not playing)
C16_IdleAfterDizzy ==
    ( /\ lpc = "input"
      /\ currentMode = "ANIMATIONS"
      /\ hDizzy.active
      /\ ~isShaking
      /\ ~animator.playing ) => staticIdle(animator)

\* C17: after the mode has returned to Animations by a long press, a Shake, the
\* menu timeout or the end of the WiFi setup, the first update of the mode
\* leaves no frame standing but the idle base frame: the engine is playing, or
\* it shows (IDLE, frame 0)
C17_NoResidualFrame == hBack.checked => hBack.primed

\* ------------------------------------------------------------------------
\* Properties of the menu system and the menu items
\* ------------------------------------------------------------------------

\* C18: the selection is an index of the current menu (index 0 when the menu
\* has no items), and when the menu has items the selection lies inside the
\* viewport: scrollOffset <= selectedIndex <= scrollOffset + maxVisibleItems - 1
C18_SelectionInViewport ==
    LET n == getCurrentMenuItemCount(menuSystem)
    IN  /\ 0 <= menuSystem.selectedIndex
        /\ menuSystem.selectedIndex < (IF n > 1 THEN n ELSE 1)
        /\ n > 0 =>
             /\ menuSystem.scrollOffset <= menuSystem.selectedIndex
             /\ menuSystem.selectedIndex <=
                    menuSystem.scrollOffset + menuSystem.maxVisibleItems - 1

\* the list has scrolled and the selection is on the last visible row
C18_Witness ==
    /\ menuSystem.scrollOffset > 0
    /\ menuSystem.selectedIndex =
           menuSystem.scrollOffset + menuSystem.maxVisibleItems - 1
    /\ getCurrentMenuItemCount(menuSystem) > menuSystem.maxVisibleItems

editing == /\ currentMode = "MENU"
           /\ encoderEditMode
           /\ getCurrentItem(menuSystem) \in ValueItems

\* C21: when edit mode is on for the selected Value or Toggle item and a step
\* of the firmware leaves that item (another item becomes the selected one, or
\* the mode leaves the menu), the edit-mode flag is false after the step
C21_LeavingCancelsEdit ==
    [][ ( /\ editing
          /\ \/ getCurrentItem(menuSystem') # getCurrentItem(menuSystem)
             \/ currentMode' # "MENU" ) => ~encoderEditMode' ]_vars

C23_LongPressExitsOrBacks ==
    [][ ( LoopButton("LONG_PRESS") /\ currentMode = "MENU" )
        => IF isAtRoot(menuSystem)
           THEN currentMode' = "ANIMATIONS"
           ELSE /\ currentMode' = "MENU"
                /\ menuSystem'.depth = menuSystem.depth - 1
                /\ menuSystem'.currentMenu = parentOf(menuSystem.currentMenu) ]_vars


\* C24: of a button or a touch sensor, two releases of short presses less than
\* the double-click window apart fire exactly one Double-Click event and no
\* Click event, and two releases farther apart than the window fire two
\* Click events.
C24_DoubleClickOrTwoClicks ==
    hIn.pairGap >= 0 =>
        /\ hIn.pairGap < button.doubleClickWindow
               => hIn.pairClicks = 0 /\ hIn.pairDoubles = 1
        /\ hIn.pairGap > button.doubleClickWindow
               => hIn.pairClicks = 2 /\ hIn.pairDoubles = 0

\* C25: the debounced state of a button or a touch sensor never changes twice
\* within one debounce delay, however the pin moves between two updates.
C25_OneChangePerWindow ==
    hIn.changeGap >= 0 => hIn.changeGap > button.debounceDelay

\* the debounced state has changed a second time, after a pin that moved
\* again within the debounce delay
C25_Witness ==
    /\ hIn.changes = 2
    /\ hIn.changedAt = nowMs
    /\ hIn.bounces = 2

\* C26: every Click, Double-Click and Long-Press event of the encoder's
\* nested button is forwarded by the encoder as the corresponding Encoder
\* Button event.
C26_ButtonEventsForwarded ==
    button.kind = "Button" =>
        \A event \in {"CLICK", "DOUBLE_CLICK", "LONG_PRESS"} :
            count(button.fired, event) = count(encoder.fired, encoderEventOf(event))

\* C27: the position moves by the detents committed times the step
\* multiplier in force, and a detent is committed only when the accumulator
\* has crossed the threshold: detents and accumulator together count the
\* valid transitions.
stepMultiplier(e) == IF e.accelerationEnabled THEN e.accelerationFactor ELSE 1

C28_FailedFallsBackToPortal ==
    wifiMgr.failed =>
        /\ wifiMgr.state = "AP_MODE"
        /\ wifiMgr.radioMode = "AP"
        /\ wifiMgr.webServerActive

\* C29: after a boot that finds no stored credentials the captive portal is
\* up, the state of the manager is AP mode and the mode is WiFi setup.
C29_BootWithoutCredentials ==
    hWifi.last = "boot" /\ ~prefs.configured =>
        /\ wifiMgr.state = "AP_MODE"
        /\ wifiMgr.radioMode = "AP"
        /\ wifiMgr.webServerActive
        /\ currentMode = "WIFI_SETUP"

\* the device has restarted after a factory reset
C29_Witness ==
    /\ hWifi.last = "boot"
    /\ hWifi.boots > 0
    /\ ~prefs.configured
    /\ wifiMgr.state = "AP_MODE"

\* C30: once credentials that validate and that the network accepts have gone
\* through the portal, and nothing but loop() runs, they are in the flash,
\* the manager passes through Connecting to Connected and the mode is no
\* longer WiFi setup.
C30_SubmitLeadsToConnected ==
    hWifi.submitted ~>
        \/ ~hWifi.submitted
        \/ /\ wifiMgr.state = "CONNECTED"
           /\ hWifi.connecting
           /\ prefs.configured /\ prefs = wifiMgr.config
           /\ currentMode # "WIFI_SETUP"

\* the connection was made from the setup screen
C30_Witness ==
    /\ hWifi.submitted
    /\ hWifi.last = "update"
    /\ wifiMgr.state = "CONNECTED"
    /\ wifiMgr.fired = <<"CONNECTED">>
    /\ currentMode = "ANIMATIONS"

\* ------------------------------------------------------------------------
\* Properties of the display's power
\* ------------------------------------------------------------------------
\* C31: once an iteration of loop() that began more than SLEEP_TIMEOUT_MS
\* after the last input event has run to its end, the panel is powered off
C31_IdleDisplayPowersOff ==
    (lpc = "input" /\ currentTime > hActivity.last + SLEEP_TIMEOUT_MS)
        => ~display.power

\* ------------------------------------------------------------------------
\* Properties of the behaviour state machine
\* ------------------------------------------------------------------------
\* C32: once stopReaction() has stopped a looping reaction, the state machine
\* returns to IDLE_BASE (or a new reaction is triggered first)
C32_StoppedReactionReturnsToBase ==
    hBeh ~> (~hBeh \/ behaviour.behaviorState = "IDLE_BASE")

\* C37: a blink or a random action that has started comes to its end: the
\* state machine leaves BLINKING and RANDOM_ACTION for IDLE_BASE (or a reaction
\* takes over)
C37_AutonomousActionsComplete ==
    (behaviour.behaviorState \in {"BLINKING", "RANDOM_ACTION"})
        ~> (behaviour.behaviorState \in {"IDLE_BASE", "REACTING"})

\* ------------------------------------------------------------------------
\* Properties of menu navigation in loop()
\* ------------------------------------------------------------------------
\* C33: a step of an input handler that moves the highlight or the current
\* menu (UP, DOWN, BACK, or SELECT on a submenu) leaves the mode MENU, plays
\* no animation and does not restart the device
C33_NavigationHasNoAction ==
    [][(/\ currentMode = "MENU"
        /\ lpc \in {"input", "motion"}
        /\ menuSystem' # menuSystem)
          => (currentMode' = "MENU" /\ animator' = animator /\ lpc' # "off")]_vars

\* ------------------------------------------------------------------------
\* Properties of the weather service's state and configuration
\* ------------------------------------------------------------------------
\* C34: the state is FETCHING_LOCATION or FETCHING_WEATHER only while a fetch
\* is in progress; with none in progress it is IDLE, CACHED, STALE or ERROR
C34_FetchingStateMeansFetching ==
    /\ state_ \in {"FETCHING_LOCATION", "FETCHING_WEATHER"} => isFetching
    /\ ~isFetching => state_ \in {"IDLE", "CACHED", "STALE", "ERROR"}


\* C35: while the service is disabled no step starts a fetch
C35_DisabledStartsNoFetch ==
    [][~enabled_ => ~(~fetchInProgress_ /\ fetchInProgress_')]_vars


\* the time the device was switched off before this boot, seconds: more than
\* either TTL.  A record found in NVS was fetched at least that long before
\* the boot
OffSecs == 700000

\* no fetch has been started since the boot: what the cache holds is what
\* loadCacheFromNVS() restored
cacheIsRestored == hSinceStart = -1

\* C36: a restored record is not reported valid once more real time than its
\* TTL has passed since it was fetched
C36_RestoredRecordExpires ==
    /\ (cacheIsRestored /\ OffSecs + now > LOCATION_CACHE_SECS)
           => ~isLocationCacheValid
    /\ (cacheIsRestored /\ OffSecs + now > WEATHER_CACHE_SECS)
           => ~isWeatherCacheValid

\* ------------------------------------------------------------------------
\* Properties of the WiFi manager when the network comes back
\* ------------------------------------------------------------------------
\* C38: once the network is back after an established connection was lost,
\* the stored credentials being the ones it accepts, the manager reaches
\* CONNECTED again (or the user steps in at the portal)
C38_ReconnectsWhenNetworkIsBack ==
    (hLink = "back" /\ prefs.configured /\ prefs.cred.accepted)
        ~> (hLink # "back" \/ wifiMgr.state = "CONNECTED")

\* ------------------------------------------------------------------------
\* Properties of the Pomodoro timer
\* ------------------------------------------------------------------------
pomodoroPaused == pomodoro.state \in {"WORK_PAUSED", "BREAK_PAUSED"}
sessionMs(p) == IF p.state = "BREAK_PAUSED" THEN POMODORO_BREAK_MS ELSE POMODORO_WORK_MS

\* C39: whenever the timer is paused, the stored remaining time is at most
\* the full length of the session that was paused (work or break)
C39_PausedRemainingWithinSession ==
    pomodoroPaused => ~u32Less(sessionMs(pomodoro), pomodoro.pausedRemaining)

\* ------------------------------------------------------------------------
\* Properties of MenuItem::addChild()
\* ------------------------------------------------------------------------
\* C40: addChild() never stores past the array of children: the number of
\* children is at most the capacity, and the capacity at most MAX_CHILDREN
C40_AddChildStaysInArray ==
    /\ parent.beyond = 0
    /\ parent.childCount <= parent.childCapacity
    /\ parent.childCapacity <= MAX_CHILDREN

====
